---- MODULE Spec2Model ----
(***************************************************************************)
(* Model of the rug-pull checker of the DeFi backend: the trust-level      *)
(* utilities (backend/utils/trust-level.ts), the RugPullChecker service    *)
(* (backend/services/rug-pull-checker.ts) and the rug-pull endpoints       *)
(* (backend/api/rug-pull-endpoints.ts).                                    *)
(*                                                                         *)
(* An async method is split at its await: the part that runs synchronously *)
(* when the method is called is one action, and the continuation that runs *)
(* when the awaited analyzeContract promise settles is another.  Between   *)
(* the two any other call may run, as on the JavaScript event loop.        *)
(***************************************************************************)
EXTENDS Integers, Sequences, FiniteSets, TLC

(***************************************************************************)
(* Bounds of the model.                                                    *)
(***************************************************************************)
\* number of service calls (checkContract, startMonitoring, stopMonitoring,
\* syncLiveMetadata, getTrustRankings) made in one behaviour
MaxOps == 3
\* the clock runs over the instants around k * rugPullCheck, k = 0..MaxEpochs
MaxEpochs == 1

\* the indicators of the utility calls run from MaxExcess below 0 to MaxExcess
\* above MaxIndicator
MaxIndicator == 100
MaxExcess == 40
\* number of times a utility is called on one input
MaxCalls == 2

\* the token pairs handed to getQuote, the quotes and the wallet handed to
\* executeSwap
QuotePairs == {<<"a1", "a2">>, <<"a1", "a1">>}
Wallets == {"w1"}

\* every contract address that occurs
Addrs == {"a1", "a2", "a3"}

\* the addresses handed to the single-address calls
CallAddrs == {"a1", "a2"}

\* the keys the cache and the monitored set can hold: the addresses, and the
\* empty string, which a request can carry in place of an address
Keys == Addrs \cup {""}

\* the addresses the requests to the endpoints carry
RequestAddrs == {"a1", ""}

\* the address lists handed to getTrustRankings
RankInputs == {<<"a1", "a2", "a3">>, <<"a1", "a1">>, <<"a2">>}

(***************************************************************************)
(* backend/config/platforms.ts                                             *)
(***************************************************************************)
TRUST_LEVEL_THRESHOLDS ==
    [green  |-> [minSafetyScore |-> 80, maxRugPullRisk |-> 20,
                 minContractAge |-> 30, minTransactionVolume |-> 100000],
     yellow |-> [minSafetyScore |-> 50, maxRugPullRisk |-> 50,
                 minContractAge |-> 7, minTransactionVolume |-> 10000]]

SAFETY_CHECK_INTERVALS ==
    [rugPullCheck     |-> 5 * 60 * 1000,
     contractAnalysis |-> 10 * 60 * 1000,
     platformListSync |-> 15 * 60 * 1000]

(***************************************************************************)
(* backend/utils/trust-level.ts                                            *)
(***************************************************************************)
Max(a, b) == IF a >= b THEN a ELSE b
Min(a, b) == IF a <= b THEN a ELSE b

\* Math.round of a number given in tenths: the nearest integer, halves up
RoundTenths(t) == (t + 5) \div 10

\* the clamp left out
calculateSafetyScore_unclamped(indicators) ==
    LET s0 == 50
        s1 == IF indicators.contractVerified THEN s0 + 15 ELSE s0
        s2 == IF indicators.hasRenounced THEN s1 + 10 ELSE s1
        s3 == IF indicators.liquidityScore > 70 THEN s2 + 10 ELSE s2
        s4 == IF indicators.holderDistribution > 60 THEN s3 + 10 ELSE s3
        s5 == IF indicators.honeypotDetected THEN s4 - 40 ELSE s4
        tenths == 10 * s5 - 3 * indicators.rugPullRisk
    IN  RoundTenths(tenths)

\* the rug-risk term cut to a whole number before it is subtracted
calculateSafetyScore_truncated(indicators) ==
    LET s0 == 50
        s1 == IF indicators.contractVerified THEN s0 + 15 ELSE s0
        s2 == IF indicators.hasRenounced THEN s1 + 10 ELSE s1
        s3 == IF indicators.liquidityScore > 70 THEN s2 + 10 ELSE s2
        s4 == IF indicators.holderDistribution > 60 THEN s3 + 10 ELSE s3
        s5 == IF indicators.honeypotDetected THEN s4 - 40 ELSE s4
    IN  Max(0, Min(100, s5 - (3 * indicators.rugPullRisk) \div 10))

\* the score started at 60 in place of 50
calculateSafetyScore_generous(indicators) ==
    LET s0 == 60
        s1 == IF indicators.contractVerified THEN s0 + 15 ELSE s0
        s2 == IF indicators.hasRenounced THEN s1 + 10 ELSE s1
        s3 == IF indicators.liquidityScore > 70 THEN s2 + 10 ELSE s2
        s4 == IF indicators.holderDistribution > 60 THEN s3 + 10 ELSE s3
        s5 == IF indicators.honeypotDetected THEN s4 - 40 ELSE s4
        tenths == 10 * s5 - 3 * indicators.rugPullRisk
    IN  Max(0, Min(100, RoundTenths(tenths)))

\* the rug-pull risk weighted with 0.5 in place of 0.3
calculateSafetyScore_steeper(indicators) ==
    LET s0 == 50
        s1 == IF indicators.contractVerified THEN s0 + 15 ELSE s0
        s2 == IF indicators.hasRenounced THEN s1 + 10 ELSE s1
        s3 == IF indicators.liquidityScore > 70 THEN s2 + 10 ELSE s2
        s4 == IF indicators.holderDistribution > 60 THEN s3 + 10 ELSE s3
        s5 == IF indicators.honeypotDetected THEN s4 - 40 ELSE s4
        tenths == 10 * s5 - 5 * indicators.rugPullRisk
    IN  Max(0, Min(100, RoundTenths(tenths)))

calculateSafetyScore(indicators) ==
    LET s0 == 50
        s1 == IF indicators.contractVerified THEN s0 + 15 ELSE s0
        s2 == IF indicators.hasRenounced THEN s1 + 10 ELSE s1
        s3 == IF indicators.liquidityScore > 70 THEN s2 + 10 ELSE s2
        s4 == IF indicators.holderDistribution > 60 THEN s3 + 10 ELSE s3
        s5 == IF indicators.honeypotDetected THEN s4 - 40 ELSE s4
        \* score -= rugPullRisk * 0.3, kept in tenths
        tenths == 10 * s5 - 3 * indicators.rugPullRisk
    IN  Max(0, Min(100, RoundTenths(tenths)))

\* the immediate red flags left out
calculateTrustLevel_noVeto(metadata, indicators) ==
    IF indicators.rugPullRisk > TRUST_LEVEL_THRESHOLDS.yellow.maxRugPullRisk
    THEN "red"
    ELSE IF /\ metadata.safetyScore >= TRUST_LEVEL_THRESHOLDS.green.minSafetyScore
            /\ indicators.rugPullRisk <= TRUST_LEVEL_THRESHOLDS.green.maxRugPullRisk
            /\ metadata.contractAge >= TRUST_LEVEL_THRESHOLDS.green.minContractAge
            /\ metadata.transactionVolume >=
                   TRUST_LEVEL_THRESHOLDS.green.minTransactionVolume
    THEN "green"
    ELSE IF /\ metadata.safetyScore >= TRUST_LEVEL_THRESHOLDS.yellow.minSafetyScore
            /\ indicators.rugPullRisk <= TRUST_LEVEL_THRESHOLDS.yellow.maxRugPullRisk
            /\ metadata.contractAge >= TRUST_LEVEL_THRESHOLDS.yellow.minContractAge
            /\ metadata.transactionVolume >=
                   TRUST_LEVEL_THRESHOLDS.yellow.minTransactionVolume
    THEN "yellow"
    ELSE "red"

\* the yellow thresholds tested before the green ones
calculateTrustLevel_yellowFirst(metadata, indicators) ==
    IF indicators.honeypotDetected \/ ~indicators.contractVerified
    THEN "red"
    ELSE IF indicators.rugPullRisk > TRUST_LEVEL_THRESHOLDS.yellow.maxRugPullRisk
    THEN "red"
    ELSE IF /\ metadata.safetyScore >= TRUST_LEVEL_THRESHOLDS.yellow.minSafetyScore
            /\ indicators.rugPullRisk <= TRUST_LEVEL_THRESHOLDS.yellow.maxRugPullRisk
            /\ metadata.contractAge >= TRUST_LEVEL_THRESHOLDS.yellow.minContractAge
            /\ metadata.transactionVolume >=
                   TRUST_LEVEL_THRESHOLDS.yellow.minTransactionVolume
    THEN "yellow"
    ELSE IF /\ metadata.safetyScore >= TRUST_LEVEL_THRESHOLDS.green.minSafetyScore
            /\ indicators.rugPullRisk <= TRUST_LEVEL_THRESHOLDS.green.maxRugPullRisk
            /\ metadata.contractAge >= TRUST_LEVEL_THRESHOLDS.green.minContractAge
            /\ metadata.transactionVolume >=
                   TRUST_LEVEL_THRESHOLDS.green.minTransactionVolume
    THEN "green"
    ELSE "red"

\* every threshold exclusive
calculateTrustLevel_strict(metadata, indicators) ==
    IF indicators.honeypotDetected \/ ~indicators.contractVerified
    THEN "red"
    ELSE IF indicators.rugPullRisk > TRUST_LEVEL_THRESHOLDS.yellow.maxRugPullRisk
    THEN "red"
    ELSE IF /\ metadata.safetyScore > TRUST_LEVEL_THRESHOLDS.green.minSafetyScore
            /\ indicators.rugPullRisk <= TRUST_LEVEL_THRESHOLDS.green.maxRugPullRisk
            /\ metadata.contractAge > TRUST_LEVEL_THRESHOLDS.green.minContractAge
            /\ metadata.transactionVolume >
                   TRUST_LEVEL_THRESHOLDS.green.minTransactionVolume
    THEN "green"
    ELSE IF /\ metadata.safetyScore > TRUST_LEVEL_THRESHOLDS.yellow.minSafetyScore
            /\ indicators.rugPullRisk <= TRUST_LEVEL_THRESHOLDS.yellow.maxRugPullRisk
            /\ metadata.contractAge > TRUST_LEVEL_THRESHOLDS.yellow.minContractAge
            /\ metadata.transactionVolume >
                   TRUST_LEVEL_THRESHOLDS.yellow.minTransactionVolume
    THEN "yellow"
    ELSE "red"

calculateTrustLevel(metadata, indicators) ==
    IF indicators.honeypotDetected \/ ~indicators.contractVerified
    THEN "red"
    ELSE IF indicators.rugPullRisk > TRUST_LEVEL_THRESHOLDS.yellow.maxRugPullRisk
    THEN "red"
    ELSE IF /\ metadata.safetyScore >= TRUST_LEVEL_THRESHOLDS.green.minSafetyScore
            /\ indicators.rugPullRisk <= TRUST_LEVEL_THRESHOLDS.green.maxRugPullRisk
            /\ metadata.contractAge >= TRUST_LEVEL_THRESHOLDS.green.minContractAge
            /\ metadata.transactionVolume >=
                   TRUST_LEVEL_THRESHOLDS.green.minTransactionVolume
    THEN "green"
    ELSE IF /\ metadata.safetyScore >= TRUST_LEVEL_THRESHOLDS.yellow.minSafetyScore
            /\ indicators.rugPullRisk <= TRUST_LEVEL_THRESHOLDS.yellow.maxRugPullRisk
            /\ metadata.contractAge >= TRUST_LEVEL_THRESHOLDS.yellow.minContractAge
            /\ metadata.transactionVolume >=
                   TRUST_LEVEL_THRESHOLDS.yellow.minTransactionVolume
    THEN "yellow"
    ELSE "red"

\* the honeypot signal pushed before the level signal
generateMiterSignals_reordered(indicators, trustLevel) ==
    LET g1 == IF indicators.honeypotDetected
              THEN <<"HONEYPOT_DETECTED">> ELSE <<>>
        g2 == IF trustLevel = "red" THEN Append(g1, "HIGH_RISK") ELSE g1
        g3 == IF ~indicators.contractVerified
              THEN Append(g2, "UNVERIFIED_CONTRACT") ELSE g2
        g4 == IF indicators.rugPullRisk > 70
              THEN Append(g3, "CRITICAL_RUG_RISK")
              ELSE IF indicators.rugPullRisk > 40
                   THEN Append(g3, "ELEVATED_RUG_RISK") ELSE g3
        g5 == IF indicators.liquidityScore < 30
              THEN Append(g4, "LOW_LIQUIDITY") ELSE g4
        g6 == IF indicators.holderDistribution < 30
              THEN Append(g5, "CONCENTRATED_HOLDERS") ELSE g5
    IN  IF ~indicators.hasRenounced
        THEN Append(g6, "OWNERSHIP_NOT_RENOUNCED") ELSE g6

\* the two rug-risk tests made independent ifs
generateMiterSignals_bothRisks(indicators, trustLevel) ==
    LET g1 == IF trustLevel = "red" THEN <<"HIGH_RISK">> ELSE <<>>
        g2 == IF indicators.honeypotDetected
              THEN Append(g1, "HONEYPOT_DETECTED") ELSE g1
        g3 == IF ~indicators.contractVerified
              THEN Append(g2, "UNVERIFIED_CONTRACT") ELSE g2
        g4a == IF indicators.rugPullRisk > 70
               THEN Append(g3, "CRITICAL_RUG_RISK") ELSE g3
        g4 == IF indicators.rugPullRisk > 40
              THEN Append(g4a, "ELEVATED_RUG_RISK") ELSE g4a
        g5 == IF indicators.liquidityScore < 30
              THEN Append(g4, "LOW_LIQUIDITY") ELSE g4
        g6 == IF indicators.holderDistribution < 30
              THEN Append(g5, "CONCENTRATED_HOLDERS") ELSE g5
    IN  IF ~indicators.hasRenounced
        THEN Append(g6, "OWNERSHIP_NOT_RENOUNCED") ELSE g6

generateMiterSignals(indicators, trustLevel) ==
    LET g1 == IF trustLevel = "red" THEN <<"HIGH_RISK">> ELSE <<>>
        g2 == IF indicators.honeypotDetected
              THEN Append(g1, "HONEYPOT_DETECTED") ELSE g1
        g3 == IF ~indicators.contractVerified
              THEN Append(g2, "UNVERIFIED_CONTRACT") ELSE g2
        g4 == IF indicators.rugPullRisk > 70
              THEN Append(g3, "CRITICAL_RUG_RISK")
              ELSE IF indicators.rugPullRisk > 40
                   THEN Append(g3, "ELEVATED_RUG_RISK") ELSE g3
        g5 == IF indicators.liquidityScore < 30
              THEN Append(g4, "LOW_LIQUIDITY") ELSE g4
        g6 == IF indicators.holderDistribution < 30
              THEN Append(g5, "CONCENTRATED_HOLDERS") ELSE g5
    IN  IF ~indicators.hasRenounced
        THEN Append(g6, "OWNERSHIP_NOT_RENOUNCED") ELSE g6

(***************************************************************************)
(* State of the RugPullChecker singleton and of its callers.               *)
(***************************************************************************)
VARIABLES
    checkCache,          \* Map<string, RugPullCheckResult>, NoEntry = no key
    monitoredContracts,  \* Set<string>, kept in insertion order
    now,                 \* the clock read by new Date()
    pending,             \* the calls suspended on analyzeContract
    last,                \* the latest step: what ran and the call it ran for
    providerCalls,       \* per address, how often analyzeContract was called
    nOps,                \* number of service calls made so far
    quiet,               \* per address: stopped, and no call for it since
    transactions,        \* WalletEndpoints: Map<string, WalletTransaction>
    args,                \* the input handed to the trust-level utilities
    rets,                \* what the utilities returned for it, call by call
    analysisCache        \* ContractAnalyzer: Map<string, ContractAnalysis>

vars == <<checkCache, monitoredContracts, now, pending, last, providerCalls,
          nOps, quiet, transactions, args, rets, analysisCache>>

\* the state outside the RugPullChecker: the wallet's store, the calls of the
\* utilities and the analyzer's cache
outside == <<transactions, args, rets, analysisCache>>

NoEntry == [undefined |-> TRUE]

Void == [void |-> TRUE]

ProviderError == [error |-> "provider error"]

Range(s) == {s[i] : i \in DOMAIN s}

\* the instants the clock can show: 0, and the instant just before and the
\* instant at each multiple of the rug-pull TTL
ClockValues ==
    {0} \cup {k * SAFETY_CHECK_INTERVALS.rugPullCheck + d :
                 k \in 1..MaxEpochs, d \in {-1, 0}}

(***************************************************************************)
(* The signal source.  analyzeContract is a placeholder that resolves with *)
(* fixed indicators; the production source it stands for queries the chain *)
(* and can reject.  The model lets the promise resolve with a value of     *)
(* analyzeContract (the placeholder's value, StubIndicators) or reject.    *)
(***************************************************************************)
\* a rug-pull risk in the elevated band
calculateRugPullRisk_elevated(contractAddress) == 45

calculateRugPullRisk(contractAddress) == 30

StubIndicators(contractAddress) ==
    [rugPullRisk        |-> calculateRugPullRisk(contractAddress),
     liquidityScore     |-> 75,
     holderDistribution |-> 70,
     contractVerified   |-> TRUE,
     honeypotDetected   |-> FALSE,
     hasRenounced       |-> FALSE]

analyzeContract(contractAddress) ==
    {StubIndicators(contractAddress)}

(***************************************************************************)
(* RugPullChecker                                                          *)
(***************************************************************************)
\* the comparison turned around
isCacheValid_inverted(timestamp) ==
    LET diff == now - timestamp
    IN  diff > SAFETY_CHECK_INTERVALS.rugPullCheck

\* the comparison made inclusive
isCacheValid_inclusive(timestamp) ==
    LET diff == now - timestamp
    IN  diff <= SAFETY_CHECK_INTERVALS.rugPullCheck

isCacheValid(timestamp) ==
    LET diff == now - timestamp
    IN  diff < SAFETY_CHECK_INTERVALS.rugPullCheck

\* checkContract up to its await: the cache lookup.  A call that is served
\* from the cache is "hit"; otherwise analyzeContract is called and the call
\* is suspended ("await").
checkContractEnter(contractAddress) ==
    LET cached == checkCache[contractAddress]
    IN  IF cached # NoEntry /\ isCacheValid(cached.timestamp)
        THEN [st |-> "hit", val |-> cached]
        ELSE [st |-> "await", val |-> NoEntry]

\* the signals generated before the level is known, for a yellow level
buildCheckResult_signalsFirst(contractAddress, indicators) ==
    LET safetyScore == calculateSafetyScore(indicators)
        metadata == [contractAge |-> 0, transactionVolume |-> 0,
                     safetyScore |-> safetyScore]
        miterSignals == generateMiterSignals(indicators, "yellow")
        riskLevel == calculateTrustLevel(metadata, indicators)
    IN  [contractAddress |-> contractAddress,
         isUnsafe        |-> riskLevel = "red",
         riskLevel       |-> riskLevel,
         indicators      |-> indicators,
         miterSignals    |-> miterSignals,
         timestamp       |-> now]

\* the result stamped with the start of the epoch, new Date(0)
buildCheckResult_epoch(contractAddress, indicators) ==
    LET safetyScore == calculateSafetyScore(indicators)
        metadata == [contractAge |-> 0, transactionVolume |-> 0,
                     safetyScore |-> safetyScore]
        riskLevel == calculateTrustLevel(metadata, indicators)
        miterSignals == generateMiterSignals(indicators, riskLevel)
    IN  [contractAddress |-> contractAddress,
         isUnsafe        |-> riskLevel = "red",
         riskLevel       |-> riskLevel,
         indicators      |-> indicators,
         miterSignals    |-> miterSignals,
         timestamp       |-> 0]

\* the level taken with the metadata of an old, much traded contract
buildCheckResult_aged(contractAddress, indicators) ==
    LET safetyScore == calculateSafetyScore(indicators)
        metadata == [contractAge |-> 365, transactionVolume |-> 1000000,
                     safetyScore |-> safetyScore]
        riskLevel == calculateTrustLevel(metadata, indicators)
        miterSignals == generateMiterSignals(indicators, riskLevel)
    IN  [contractAddress |-> contractAddress,
         isUnsafe        |-> riskLevel = "red",
         riskLevel       |-> riskLevel,
         indicators      |-> indicators,
         miterSignals    |-> miterSignals,
         timestamp       |-> now]

\* checkContract after its await: the result built from the indicators
buildCheckResult(contractAddress, indicators) ==
    LET safetyScore == calculateSafetyScore(indicators)
        metadata == [contractAge |-> 0, transactionVolume |-> 0,
                     safetyScore |-> safetyScore]
        riskLevel == calculateTrustLevel(metadata, indicators)
        miterSignals == generateMiterSignals(indicators, riskLevel)
    IN  [contractAddress |-> contractAddress,
         isUnsafe        |-> riskLevel = "red",
         riskLevel       |-> riskLevel,
         indicators      |-> indicators,
         miterSignals    |-> miterSignals,
         timestamp       |-> now]

\* a call is settled when none of its checkContract promises is suspended
\* and no continuation of it is queued
Settled(op) == \A i \in DOMAIN op.items : op.items[i].st \notin {"await", "queued"}

Fulfilled(item) == item.st \in {"hit", "ok"}

NumFailed(op) == Cardinality({i \in DOMAIN op.items : op.items[i].st = "err"})

NoOp == [id |-> 0, kind |-> "none", addrs |-> <<>>, items |-> <<>>]

NoEvent == [ev |-> "init", op |-> NoOp, idx |-> 0, at |-> 0]

\* an event without the event before it
Strip(l) == [ev |-> l.ev, op |-> l.op, idx |-> l.idx, at |-> l.at]

\* the event written by a step: what ran (ev), for which call (op), on which
\* of its promises (idx), when (at), and for a call the event before it (pre)
Event(ev, op, idx, pre) ==
    [ev |-> ev, op |-> op, idx |-> idx, at |-> now, pre |-> pre]

\* a suspended call with one of its promises settled
SettleItem(op, op2) ==
    IF Settled(op2) THEN pending \ {op} ELSE (pending \ {op}) \cup {op2}

\* the bookkeeping common to every call: number it, count the provider
\* calls it made, and suspend it if one of its promises is not settled
Invoke(kind, addrs, items) ==
    LET op == [id |-> nOps + 1, kind |-> kind, addrs |-> addrs,
               items |-> items]
    IN  /\ nOps < MaxOps
        /\ nOps' = nOps + 1
        /\ providerCalls' =
              [a \in Keys |->
                  providerCalls[a] +
                  Cardinality({i \in DOMAIN items :
                                  addrs[i] = a /\ items[i].st = "await"})]
        /\ pending' = IF Settled(op) THEN pending ELSE pending \cup {op}
        /\ last' = Event("call", op, 0, Strip(last))
        /\ quiet' = [a \in Keys |-> IF a \in Range(addrs) THEN FALSE
                                     ELSE quiet[a]]

\* checkContract called by an endpoint or another service
checkContract(contractAddress) ==
    /\ Invoke("evaluate", <<contractAddress>>,
              <<checkContractEnter(contractAddress)>>)
    /\ UNCHANGED <<checkCache, monitoredContracts, now, outside>>

\* the first result kept: a result is not stored over an entry that is valid
checkContractFulfilled_firstWins(op, i, indicators) ==
    LET result == buildCheckResult(op.addrs[i], indicators)
        op2 == [op EXCEPT !.items[i] = [st |-> "ok", val |-> result]]
        cached == checkCache[op.addrs[i]]
    IN  /\ op \in pending
        /\ i \in DOMAIN op.items
        /\ op.items[i].st = "await"
        /\ checkCache' = IF cached # NoEntry /\ isCacheValid(cached.timestamp)
                         THEN checkCache
                         ELSE [checkCache EXCEPT ![op.addrs[i]] = result]
        /\ pending' = SettleItem(op, op2)
        /\ last' = Event("resolve", op2, i, NoEvent)
        /\ UNCHANGED <<monitoredContracts, now, providerCalls, nOps, quiet,
                       outside>>

\* the continuation of a suspended checkContract, analyzeContract resolved
checkContractFulfilled(op, i, indicators) ==
    LET result == buildCheckResult(op.addrs[i], indicators)
        op2 == [op EXCEPT !.items[i] = [st |-> "ok", val |-> result]]
    IN  /\ op \in pending
        /\ i \in DOMAIN op.items
        /\ op.items[i].st = "await"
        /\ checkCache' = [checkCache EXCEPT ![op.addrs[i]] = result]
        /\ pending' = SettleItem(op, op2)
        /\ last' = Event("resolve", op2, i, NoEvent)
        /\ UNCHANGED <<monitoredContracts, now, providerCalls, nOps, quiet, outside>>

\* the add of startMonitoring rolled back when its initial check fails
checkContractRejected_rollback(op, i) ==
    LET op2 == [op EXCEPT !.items[i] = [st |-> "err", val |-> NoEntry]]
    IN  /\ op \in pending
        /\ i \in DOMAIN op.items
        /\ op.items[i].st = "await"
        /\ monitoredContracts' =
              IF op.kind = "start"
              THEN SelectSeq(monitoredContracts, LAMBDA x : x # op.addrs[i])
              ELSE monitoredContracts
        /\ pending' = SettleItem(op, op2)
        /\ last' = Event("reject", op2, i, NoEvent)
        /\ UNCHANGED <<checkCache, now, providerCalls, nOps, quiet, outside>>

\* the rejection caught and analyzeContract asked again
checkContractRejected_retry(op, i) ==
    /\ op \in pending
    /\ i \in DOMAIN op.items
    /\ op.items[i].st = "await"
    /\ last' = Event("reject", op, i, NoEvent)
    /\ UNCHANGED <<checkCache, monitoredContracts, now, pending,
                   providerCalls, nOps, quiet, outside>>

\* the rejection caught and a failure entry cached
checkContractRejected_cached(op, i) ==
    LET op2 == [op EXCEPT !.items[i] = [st |-> "err", val |-> NoEntry]]
    IN  /\ op \in pending
        /\ i \in DOMAIN op.items
        /\ op.items[i].st = "await"
        /\ checkCache' = [checkCache EXCEPT ![op.addrs[i]] =
                             [contractAddress |-> op.addrs[i],
                              isUnsafe        |-> TRUE,
                              riskLevel       |-> "red",
                              indicators      |-> StubIndicators(op.addrs[i]),
                              miterSignals    |-> <<"HIGH_RISK">>,
                              timestamp       |-> now]]
        /\ pending' = SettleItem(op, op2)
        /\ last' = Event("reject", op2, i, NoEvent)
        /\ UNCHANGED <<monitoredContracts, now, providerCalls, nOps, quiet, outside>>

\* the continuation of a suspended checkContract, analyzeContract rejected:
\* the await throws and the method ends without reaching the cache
checkContractRejected(op, i) ==
    LET op2 == [op EXCEPT !.items[i] = [st |-> "err", val |-> NoEntry]]
    IN  /\ op \in pending
        /\ i \in DOMAIN op.items
        /\ op.items[i].st = "await"
        /\ pending' = SettleItem(op, op2)
        /\ last' = Event("reject", op2, i, NoEvent)
        /\ UNCHANGED <<checkCache, monitoredContracts, now, providerCalls,
                       nOps, quiet, outside>>

\* what the caller of checkContract gets once the promise is settled
checkContractOutcome(op) ==
    IF Fulfilled(op.items[1])
    THEN [status |-> "fulfilled", value |-> op.items[1].val]
    ELSE [status |-> "rejected", value |-> ProviderError]

\* the new address put at the front of the monitored contracts
startMonitoring_prepend(contractAddress) ==
    IF contractAddress \in Range(monitoredContracts)
    THEN /\ Invoke("start", <<contractAddress>>, <<>>)
         /\ UNCHANGED <<checkCache, monitoredContracts, now, outside>>
    ELSE /\ Invoke("start", <<contractAddress>>,
                   <<checkContractEnter(contractAddress)>>)
         /\ monitoredContracts' = <<contractAddress>> \o monitoredContracts
         /\ UNCHANGED <<checkCache, now, outside>>

\* the initial check left out: the address is added and nothing is evaluated
startMonitoring_noCheck(contractAddress) ==
    IF contractAddress \in Range(monitoredContracts)
    THEN /\ Invoke("start", <<contractAddress>>, <<>>)
         /\ UNCHANGED <<checkCache, monitoredContracts, now, outside>>
    ELSE /\ Invoke("start", <<contractAddress>>, <<>>)
         /\ monitoredContracts' = Append(monitoredContracts, contractAddress)
         /\ UNCHANGED <<checkCache, now, outside>>

\* the has() guard left out: Set.add and the initial check run every time
startMonitoring_unguarded(contractAddress) ==
    /\ Invoke("start", <<contractAddress>>,
              <<checkContractEnter(contractAddress)>>)
    /\ monitoredContracts' =
          IF contractAddress \in Range(monitoredContracts)
          THEN monitoredContracts
          ELSE Append(monitoredContracts, contractAddress)
    /\ UNCHANGED <<checkCache, now, outside>>

startMonitoring(contractAddress) ==
    IF contractAddress \in Range(monitoredContracts)
    THEN /\ Invoke("start", <<contractAddress>>, <<>>)
         /\ UNCHANGED <<checkCache, monitoredContracts, now, outside>>
    ELSE /\ Invoke("start", <<contractAddress>>,
                   <<checkContractEnter(contractAddress)>>)
         /\ monitoredContracts' = Append(monitoredContracts, contractAddress)
         /\ UNCHANGED <<checkCache, now, outside>>

startMonitoringOutcome(op) ==
    IF op.items = <<>> \/ Fulfilled(op.items[1])
    THEN [status |-> "fulfilled", value |-> Void]
    ELSE [status |-> "rejected", value |-> ProviderError]

\* the entry evicted only if the address was monitored
stopMonitoring_monitoredOnly(contractAddress) ==
    /\ nOps < MaxOps
    /\ nOps' = nOps + 1
    /\ monitoredContracts' =
          SelectSeq(monitoredContracts, LAMBDA x : x # contractAddress)
    /\ checkCache' =
          IF contractAddress \in Range(monitoredContracts)
          THEN [checkCache EXCEPT ![contractAddress] = NoEntry]
          ELSE checkCache
    /\ last' = Event("stop",
                     [id |-> nOps + 1, kind |-> "stop",
                      addrs |-> <<contractAddress>>,
                      items |-> <<[st |-> "evicted",
                                   val |-> checkCache[contractAddress]]>>],
                     0, Strip(last))
    /\ quiet' = [quiet EXCEPT ![contractAddress] = TRUE]
    /\ UNCHANGED <<now, pending, providerCalls, outside>>

\* the whole cache cleared, checkCache.clear()
stopMonitoring_clearAll(contractAddress) ==
    /\ nOps < MaxOps
    /\ nOps' = nOps + 1
    /\ monitoredContracts' =
          SelectSeq(monitoredContracts, LAMBDA x : x # contractAddress)
    /\ checkCache' = [a \in Keys |-> NoEntry]
    /\ last' = Event("stop",
                     [id |-> nOps + 1, kind |-> "stop",
                      addrs |-> <<contractAddress>>,
                      items |-> <<[st |-> "evicted",
                                   val |-> checkCache[contractAddress]]>>],
                     0, Strip(last))
    /\ quiet' = [quiet EXCEPT ![contractAddress] = TRUE]
    /\ UNCHANGED <<now, pending, providerCalls, outside>>

\* the cache eviction left out
stopMonitoring_keepCache(contractAddress) ==
    /\ nOps < MaxOps
    /\ nOps' = nOps + 1
    /\ monitoredContracts' =
          SelectSeq(monitoredContracts, LAMBDA x : x # contractAddress)
    /\ last' = Event("stop",
                     [id |-> nOps + 1, kind |-> "stop",
                      addrs |-> <<contractAddress>>,
                      items |-> <<[st |-> "evicted",
                                   val |-> checkCache[contractAddress]]>>],
                     0, Strip(last))
    /\ quiet' = [quiet EXCEPT ![contractAddress] = TRUE]
    /\ UNCHANGED <<checkCache, now, pending, providerCalls, outside>>

stopMonitoring(contractAddress) ==
    /\ nOps < MaxOps
    /\ nOps' = nOps + 1
    /\ monitoredContracts' =
          SelectSeq(monitoredContracts, LAMBDA x : x # contractAddress)
    /\ checkCache' = [checkCache EXCEPT ![contractAddress] = NoEntry]
    /\ last' = Event("stop",
                     [id |-> nOps + 1, kind |-> "stop",
                      addrs |-> <<contractAddress>>,
                      items |-> <<[st |-> "evicted",
                                   val |-> checkCache[contractAddress]]>>],
                     0, Strip(last))
    /\ quiet' = [quiet EXCEPT ![contractAddress] = TRUE]
    /\ UNCHANGED <<now, pending, providerCalls, outside>>

getMonitoredContracts == monitoredContracts

syncLiveMetadata ==
    LET addresses == monitoredContracts
    IN  /\ Invoke("sync", addresses,
                  [i \in DOMAIN addresses |-> checkContractEnter(addresses[i])])
        /\ UNCHANGED <<checkCache, monitoredContracts, now, outside>>

\* Promise.allSettled: fulfilled whatever the promises do
allSettled(items) == "fulfilled"

\* Promise.all in place of Promise.allSettled: the first rejection is raised
syncLiveMetadataOutcome_all(op) ==
    IF NumFailed(op) > 0
    THEN [status |-> "rejected", value |-> ProviderError]
    ELSE [status |-> "fulfilled", value |-> Void]

syncLiveMetadataOutcome(op) ==
    [status |-> allSettled(op.items), value |-> Void]

getTrustRankings(contractAddresses) ==
    /\ Invoke("rank", contractAddresses,
              [i \in DOMAIN contractAddresses |->
                  checkContractEnter(contractAddresses[i])])
    /\ UNCHANGED <<checkCache, monitoredContracts, now, outside>>

\* Map.set
MapSet(m, k, v) == [x \in DOMAIN m \cup {k} |-> IF x = k THEN v ELSE m[x]]

\* a rejected result ranked red instead of left out
RECURSIVE rankingsAfter_placeholder(_, _)
rankingsAfter_placeholder(op, n) ==
    IF n = 0
    THEN [x \in {} |-> "red"]
    ELSE LET rankings == rankingsAfter_placeholder(op, n - 1)
         IN  IF Fulfilled(op.items[n])
             THEN MapSet(rankings, op.addrs[n], op.items[n].val.riskLevel)
             ELSE MapSet(rankings, op.addrs[n], "red")

\* the rankings map after results.forEach has visited the first n results
RECURSIVE rankingsAfter(_, _)
rankingsAfter(op, n) ==
    IF n = 0
    THEN [x \in {} |-> "red"]
    ELSE LET rankings == rankingsAfter(op, n - 1)
         IN  IF Fulfilled(op.items[n])
             THEN MapSet(rankings, op.addrs[n], op.items[n].val.riskLevel)
             ELSE rankings

getTrustRankingsOutcome(op) ==
    [status |-> allSettled(op.items),
     value  |-> rankingsAfter(op, Len(op.items))]

\* Array.prototype.join
RECURSIVE join(_, _)
join(strings, separator) ==
    IF Len(strings) = 0 THEN <<>>
    ELSE IF Len(strings) = 1 THEN <<strings[1]>>
    ELSE <<strings[1], separator>> \o join(Tail(strings), separator)

\* the honeypot and the rug-pull risk tested before isUnsafe
flagDecision_honeypotFirst(result) ==
    IF result.indicators.honeypotDetected
    THEN [shouldBlock |-> TRUE,
          reason |-> <<"Honeypot detected - transaction may not be reversible">>]
    ELSE IF result.indicators.rugPullRisk > 70
    THEN [shouldBlock |-> TRUE,
          reason |-> <<"Critical rug pull risk detected">>]
    ELSE IF result.isUnsafe
    THEN [shouldBlock |-> TRUE,
          reason |-> <<"Contract flagged as ", result.riskLevel, ": ">>
                     \o join(result.miterSignals, ", ")]
    ELSE [shouldBlock |-> FALSE,
          reason |-> <<"Contract passed safety checks">>]

\* the isUnsafe test left out
flagDecision_noRedCheck(result) ==
    IF result.indicators.honeypotDetected
    THEN [shouldBlock |-> TRUE,
          reason |-> <<"Honeypot detected - transaction may not be reversible">>]
    ELSE IF result.indicators.rugPullRisk > 70
    THEN [shouldBlock |-> TRUE,
          reason |-> <<"Critical rug pull risk detected">>]
    ELSE [shouldBlock |-> FALSE,
          reason |-> <<"Contract passed safety checks">>]

\* flagUnsafeInteractions after its await: the response made from the result;
\* a reason is the sequence of the pieces of its text
flagDecision(result) ==
    IF result.isUnsafe
    THEN [shouldBlock |-> TRUE,
          reason |-> <<"Contract flagged as ", result.riskLevel, ": ">>
                     \o join(result.miterSignals, ", ")]
    ELSE IF result.indicators.honeypotDetected
    THEN [shouldBlock |-> TRUE,
          reason |-> <<"Honeypot detected - transaction may not be reversible">>]
    ELSE IF result.indicators.rugPullRisk > 70
    THEN [shouldBlock |-> TRUE,
          reason |-> <<"Critical rug pull risk detected">>]
    ELSE [shouldBlock |-> FALSE,
          reason |-> <<"Contract passed safety checks">>]

flagUnsafeInteractions(contractAddress) ==
    /\ Invoke("flag", <<contractAddress>>,
              <<checkContractEnter(contractAddress)>>)
    /\ UNCHANGED <<checkCache, monitoredContracts, now, outside>>

flagUnsafeInteractionsOutcome(op) ==
    IF Fulfilled(op.items[1])
    THEN [status |-> "fulfilled", value |-> flagDecision(op.items[1].val)]
    ELSE [status |-> "rejected", value |-> ProviderError]

(***************************************************************************)
(* RugPullEndpoints                                                        *)
(***************************************************************************)
\* the response of POST /api/rug-check/sync
endpointSyncLiveMetadata(op) ==
    IF syncLiveMetadataOutcome(op).status = "fulfilled"
    THEN [success |-> TRUE, message |-> "Live metadata synced successfully"]
    ELSE [success |-> FALSE, message |-> ProviderError.error]

\* POST /api/rug-check: a request with a missing address is answered at once
\* with the error, and the service is not called
endpointCheckContract(contractAddress) ==
    IF contractAddress = ""
    THEN /\ Invoke("evaluate", <<contractAddress>>,
                   <<[st |-> "refused",
                      val |-> [error |-> "Invalid contract address"]]>>)
         /\ UNCHANGED <<checkCache, monitoredContracts, now, outside>>
    ELSE checkContract(contractAddress)

\* the response of POST /api/rug-check
endpointCheckContractResponse(op) ==
    IF op.items[1].st = "refused"
    THEN [success |-> FALSE, error |-> op.items[1].val.error]
    ELSE IF checkContractOutcome(op).status = "fulfilled"
    THEN [success |-> TRUE, data |-> checkContractOutcome(op).value]
    ELSE [success |-> FALSE, error |-> ProviderError.error]

\* POST /api/rug-check/monitor: the address is handed to the service as it is
endpointStartMonitoring(contractAddress) == startMonitoring(contractAddress)

\* the response of POST /api/rug-check/monitor
endpointStartMonitoringResponse(op) ==
    IF startMonitoringOutcome(op).status = "fulfilled"
    THEN [success |-> TRUE, message |-> <<"Started monitoring ", op.addrs[1]>>]
    ELSE [success |-> FALSE, error |-> ProviderError.error]

\* POST /api/rug-check/flag: the address is handed to the service as it is
endpointFlagUnsafeInteractions(contractAddress) ==
    flagUnsafeInteractions(contractAddress)

\* the response of POST /api/rug-check/flag
endpointFlagUnsafeInteractionsResponse(op) ==
    IF flagUnsafeInteractionsOutcome(op).status = "fulfilled"
    THEN [success |-> TRUE, data |-> flagUnsafeInteractionsOutcome(op).value]
    ELSE [success |-> FALSE, error |-> ProviderError.error]

\* the response of the endpoint that made the call
endpointResponse(op) ==
    IF op.kind = "evaluate" THEN endpointCheckContractResponse(op)
    ELSE IF op.kind = "start" THEN endpointStartMonitoringResponse(op)
    ELSE endpointFlagUnsafeInteractionsResponse(op)

(***************************************************************************)
(* ContractAnalyzer                                                        *)
(***************************************************************************)
\* the addresses of the verified tokens the library is initialized with
tokenLibrary ==
    {"4k3Dyjzvzp8eMZWUXbBCjEvwSkkk59S5iCNLY3QrkX6R",
     "orcaEKTdK7LKz57vaAYr9QeNsVEPfiu6QeMU1kektZE"}

\* the analysis cache with the TTL of the rug-pull cache
ContractAnalyzer_isCacheValid_rugTtl(updatedAt) ==
    LET diff == now - updatedAt
    IN  diff < SAFETY_CHECK_INTERVALS.rugPullCheck

ContractAnalyzer_isCacheValid(updatedAt) ==
    LET diff == now - updatedAt
    IN  diff < 10 * 60 * 1000

checkSlippageSafety(contractAddress) == contractAddress \in tokenLibrary

\* 0.001 SOL, as thousandths of a SOL
estimateGasCosts(contractAddress) == [thousandths |-> 1]

analyzeProfitability(contractAddress) == 50

determineRecommendedAction(safetyLevel, profitability, slippageSafe) ==
    IF safetyLevel = "red" \/ ~slippageSafe THEN "avoid"
    ELSE IF safetyLevel = "yellow"
    THEN (IF profitability > 60 THEN "hold" ELSE "avoid")
    ELSE IF profitability > 70 THEN "buy"
    ELSE IF profitability > 40 THEN "hold"
    ELSE "sell"

\* assessContractSafety after its awaits: the analysis made from the result
\* of checkContract
buildAnalysis(contractAddress, rugCheck) ==
    LET gasEstimate == estimateGasCosts(contractAddress)
        profitability == analyzeProfitability(contractAddress)
        slippageSafety == checkSlippageSafety(contractAddress)
    IN  [address            |-> contractAddress,
         safetyAssessment   |-> rugCheck.riskLevel,
         profitabilityScore |-> profitability,
         gasEstimate        |-> gasEstimate,
         slippageSafety     |-> slippageSafety,
         recommendedAction  |->
             determineRecommendedAction(rugCheck.riskLevel, profitability,
                                        slippageSafety),
         updatedAt          |-> now]

\* assessContractSafety up to its first await: an analysis that is valid is
\* returned at once ("served"); otherwise checkContract is called and the
\* rest of the method is queued behind its promise
assessContractSafety(contractAddress) ==
    LET cached == analysisCache[contractAddress]
    IN  /\ IF cached # NoEntry /\ ContractAnalyzer_isCacheValid(cached.updatedAt)
           THEN Invoke("assess", <<contractAddress>>,
                       <<[st |-> "served", val |-> cached]>>)
           ELSE Invoke("assess", <<contractAddress, contractAddress>>,
                       <<checkContractEnter(contractAddress),
                         [st |-> "queued", val |-> NoEntry]>>)
        /\ UNCHANGED <<checkCache, monitoredContracts, now, outside>>

\* the rest of assessContractSafety, run once the promise of checkContract is
\* settled: the analysis is made and cached, or the rejection is passed on
assessContractSafetyResume(op) ==
    LET analysis == buildAnalysis(op.addrs[1], op.items[1].val)
        op2 == [op EXCEPT !.items[2] =
                   IF Fulfilled(op.items[1])
                   THEN [st |-> "analysed", val |-> analysis]
                   ELSE [st |-> "err", val |-> NoEntry]]
    IN  /\ op \in pending
        /\ op.kind = "assess"
        /\ op.items[1].st # "await"
        /\ analysisCache' =
              IF Fulfilled(op.items[1])
              THEN [analysisCache EXCEPT ![op.addrs[1]] = analysis]
              ELSE analysisCache
        /\ pending' = SettleItem(op, op2)
        /\ last' = Event("resume", op2, 2, NoEvent)
        /\ UNCHANGED <<checkCache, monitoredContracts, now, providerCalls,
                       nOps, quiet, transactions, args, rets>>

\* what the caller of assessContractSafety gets once the promise is settled
assessContractSafetyOutcome(op) ==
    IF op.items[Len(op.items)].st \in {"served", "analysed"}
    THEN [status |-> "fulfilled", value |-> op.items[Len(op.items)].val]
    ELSE [status |-> "rejected", value |-> ProviderError]

(***************************************************************************)
(* JupiterIntegration and WalletEndpoints                                  *)
(***************************************************************************)
\* Number.prototype.toString and parseFloat on the amounts that occur
Amounts == {1000}

toString(amount) == CASE amount = 1000 -> "1000"

parseFloat(string) == CASE string = "1000" -> 1000

\* the quotes a client can hand to executeSwap: a JupiterQuote is plain data
\* of the request body
SwapQuotes ==
    [inputMint      : {"a1"},
     outputMint     : {"a2"},
     inAmount       : {toString(amount) : amount \in Amounts},
     outAmount      : {"0"},
     priceImpactPct : {5, 6},
     slippageBps    : {100, 101},
     route          : {<<"h1", "h2", "h3">>, <<"h1", "h2", "h3", "h4">>}]

\* the suffix Math.random gives to a transaction id
RandomSuffixes == {"r1", "r2"}

getBasicQuote(inputMint, outputMint, amount, slippageBps) ==
    [inputMint      |-> inputMint,
     outputMint     |-> outputMint,
     inAmount       |-> toString(amount),
     outAmount      |-> "0",
     priceImpactPct |-> 0,
     slippageBps    |-> slippageBps,
     route          |-> <<>>]

\* a price impact of up to 6 per cent let through
verifyTransactionSafety_lenient(quote) ==
    LET w1 == IF quote.priceImpactPct > 6
              THEN <<"High price impact detected (>5%)">> ELSE <<>>
        w2 == IF quote.slippageBps > 100
              THEN Append(w1, "High slippage tolerance (>1%)") ELSE w1
        warnings == IF Len(quote.route) > 3
                    THEN Append(w2, "Complex routing may increase failure risk")
                    ELSE w2
    IN  [safe |-> Len(warnings) = 0, warnings |-> warnings]

verifyTransactionSafety(quote) ==
    LET w1 == IF quote.priceImpactPct > 5
              THEN <<"High price impact detected (>5%)">> ELSE <<>>
        w2 == IF quote.slippageBps > 100
              THEN Append(w1, "High slippage tolerance (>1%)") ELSE w1
        warnings == IF Len(quote.route) > 3
                    THEN Append(w2, "Complex routing may increase failure risk")
                    ELSE w2
    IN  [safe |-> Len(warnings) = 0, warnings |-> warnings]

generateTransactionId(random) == <<"tx", now, random>>

\* JupiterIntegration.executeSwap
jupiterExecuteSwap(quote, walletAddress, random) ==
    [id            |-> generateTransactionId(random),
     walletAddress |-> walletAddress,
     status        |-> "pending",
     amount        |-> parseFloat(quote.inAmount),
     token         |-> quote.inputMint,
     safetyCheck   |-> TRUE,
     timestamp     |-> now]

\* POST /api/wallet/quote up to its await: the two flagUnsafeInteractions
\* calls of Promise.all, each up to the await of its checkContract
getQuote(inputMint, outputMint) ==
    /\ Invoke("quote", <<inputMint, outputMint>>,
              <<checkContractEnter(inputMint), checkContractEnter(outputMint)>>)
    /\ UNCHANGED <<checkCache, monitoredContracts, now, outside>>

\* the response of POST /api/wallet/quote once Promise.all has settled
getQuoteOutcome(op, amount, slippageBps) ==
    IF NumFailed(op) > 0
    THEN [success |-> FALSE, error |-> <<ProviderError.error>>]
    ELSE LET inputCheck == flagDecision(op.items[1].val)
             outputCheck == flagDecision(op.items[2].val)
             quote == getBasicQuote(op.addrs[1], op.addrs[2], amount,
                                    slippageBps)
         IN  IF inputCheck.shouldBlock
             THEN [success |-> FALSE,
                   error |-> <<"Input token unsafe: ">> \o inputCheck.reason]
             ELSE IF outputCheck.shouldBlock
             THEN [success |-> FALSE,
                   error |-> <<"Output token unsafe: ">> \o outputCheck.reason]
             ELSE [success |-> TRUE,
                   data |-> [quote |-> quote,
                             safetyWarnings |->
                                verifyTransactionSafety(quote).warnings]]

\* POST /api/wallet/swap: the quote is verified, the transaction made and
\* stored.  The awaits of the handler are on promises that are already
\* settled and touch no shared state, so the handler is one step.
executeSwap(quote, walletAddress) ==
    LET safetyCheck == verifyTransactionSafety(quote)
    IN  /\ nOps < MaxOps
        /\ nOps' = nOps + 1
        /\ \E random \in RandomSuffixes :
              LET transaction == jupiterExecuteSwap(quote, walletAddress, random)
                  item == IF safetyCheck.safe
                          THEN [st |-> "stored", val |-> transaction,
                                quote |-> quote]
                          ELSE [st |-> "refused", val |-> NoEntry,
                                quote |-> quote]
              IN  /\ transactions' =
                        IF safetyCheck.safe
                        THEN MapSet(transactions, transaction.id, transaction)
                        ELSE transactions
                  /\ last' = Event("call",
                                   [id |-> nOps + 1, kind |-> "swap",
                                    addrs |-> <<quote.inputMint,
                                                quote.outputMint>>,
                                    items |-> <<item>>],
                                   0, Strip(last))
        /\ UNCHANGED <<checkCache, monitoredContracts, now, pending,
                       providerCalls, quiet, args, rets, analysisCache>>

\* the response of POST /api/wallet/swap
executeSwapOutcome(op) ==
    IF op.items[1].st = "stored"
    THEN [success |-> TRUE, data |-> op.items[1].val]
    ELSE [success |-> FALSE,
          error |-> <<"Transaction not safe: ">>
                    \o join(verifyTransactionSafety(op.items[1].quote).warnings,
                            ", ")]

(***************************************************************************)
(* The clock and the specifications.                                       *)
(***************************************************************************)
\* expiry made eager: the clock's step removes the entries that are stale
Tick_evicting ==
    /\ \E t \in ClockValues :
          /\ t > now
          /\ now' = t
          /\ checkCache' =
                [a \in Keys |->
                    IF /\ checkCache[a] # NoEntry
                       /\ t - checkCache[a].timestamp
                             >= SAFETY_CHECK_INTERVALS.rugPullCheck
                    THEN NoEntry
                    ELSE checkCache[a]]
    /\ UNCHANGED <<monitoredContracts, pending, last, providerCalls, nOps,
                   quiet, outside>>

Tick ==
    /\ \E t \in ClockValues : t > now /\ now' = t
    /\ UNCHANGED <<checkCache, monitoredContracts, pending, last,
                   providerCalls, nOps, quiet, outside>>

Init ==
    /\ checkCache = [a \in Keys |-> NoEntry]
    /\ monitoredContracts = <<>>
    /\ now = 0
    /\ pending = {}
    /\ last = Event("init", NoOp, 0, NoEvent)
    /\ providerCalls = [a \in Keys |-> 0]
    /\ nOps = 0
    /\ quiet = [a \in Keys |-> FALSE]
    /\ transactions = <<>>
    /\ args = NoEntry
    /\ rets = <<>>
    /\ analysisCache = [a \in Keys |-> NoEntry]

Settle ==
    \/ \E op \in pending : \E i \in DOMAIN op.items :
          \E ind \in analyzeContract(op.addrs[i]) :
             checkContractFulfilled(op, i, ind)
    \/ \E op \in pending : \E i \in DOMAIN op.items :
          checkContractRejected(op, i)

\* the single-address calls and the sync of the monitored set
Next ==
    \/ \E a \in CallAddrs : checkContract(a)
    \/ \E a \in CallAddrs : startMonitoring(a)
    \/ \E a \in CallAddrs : stopMonitoring(a)
    \/ syncLiveMetadata
    \/ Settle
    \/ Tick

Spec == Init /\ [][Next]_vars

\* the ranking of address lists, one list at a time, next to single checks
NextRank ==
    \/ \E as \in RankInputs : pending = {} /\ getTrustRankings(as)
    \/ checkContract("a1")
    \/ Settle
    \/ Tick

SpecRank == Init /\ [][NextRank]_vars

\* the monitoring calls on their own, over every address
NextMonitor ==
    \/ \E a \in Addrs : startMonitoring(a)
    \/ \E a \in Addrs : stopMonitoring(a)
    \/ Settle
    \/ Tick

SpecMonitor == Init /\ [][NextMonitor]_vars

\* the requests to the rug-pull endpoints that take one address
NextEndpoints ==
    \/ \E a \in RequestAddrs : endpointCheckContract(a)
    \/ \E a \in RequestAddrs : endpointStartMonitoring(a)
    \/ \E a \in RequestAddrs : endpointFlagUnsafeInteractions(a)
    \/ Settle
    \/ Tick

SpecEndpoints == Init /\ [][NextEndpoints]_vars

\* the instants the clock of the analyzer can show: 0, and the instant just
\* before and the instant at the TTL of each of the two caches
AnalyzerClockValues ==
    {0} \cup {ttl + d : ttl \in {SAFETY_CHECK_INTERVALS.rugPullCheck,
                                 10 * 60 * 1000},
                        d \in {-1, 0}}

TickAnalyzer ==
    /\ \E t \in AnalyzerClockValues : t > now /\ now' = t
    /\ UNCHANGED <<checkCache, monitoredContracts, pending, last,
                   providerCalls, nOps, quiet, outside>>

\* the analyzer next to the checker's own calls for the same address
NextAnalyzer ==
    \/ assessContractSafety("a1")
    \/ \E op \in pending : assessContractSafetyResume(op)
    \/ checkContract("a1")
    \/ stopMonitoring("a1")
    \/ Settle
    \/ TickAnalyzer

SpecAnalyzer == Init /\ [][NextAnalyzer]_vars

\* every call of the checker, on two addresses, at one instant of the clock
NextFrame ==
    \/ \E a \in CallAddrs : checkContract(a)
    \/ \E a \in CallAddrs : flagUnsafeInteractions(a)
    \/ getTrustRankings(<<"a1", "a2">>)
    \/ syncLiveMetadata
    \/ \E a \in CallAddrs : startMonitoring(a)
    \/ \E a \in CallAddrs : stopMonitoring(a)
    \/ Settle

SpecFrame == Init /\ [][NextFrame]_vars

\* the calls that wait for the signal source, at most two of them suspended
\* at a time, at one instant of the clock
NextFair ==
    \/ Cardinality(pending) < 2 /\ checkContract("a1")
    \/ Cardinality(pending) < 2 /\ startMonitoring("a2")
    \/ Cardinality(pending) < 2 /\ getTrustRankings(<<"a1", "a2">>)
    \/ Cardinality(pending) < 2 /\ syncLiveMetadata
    \/ Settle

\* every promise of analyzeContract is settled at some time
SpecFair == Init /\ [][NextFair]_vars /\ WF_vars(Settle)

\* what the analysis sketched in analyzeContract (bytecode, ownership,
\* liquidity and holder checks) can resolve with once it reads the chain
analyzeContractLive(contractAddress) ==
    {StubIndicators(contractAddress),
     [StubIndicators(contractAddress) EXCEPT !.honeypotDetected = TRUE],
     [StubIndicators(contractAddress) EXCEPT !.rugPullRisk = 80]}

SettleLive ==
    \/ \E op \in pending : \E i \in DOMAIN op.items :
          \E ind \in analyzeContractLive(op.addrs[i]) :
             checkContractFulfilled(op, i, ind)
    \/ \E op \in pending : \E i \in DOMAIN op.items :
          checkContractRejected(op, i)

\* the interaction flag over a live signal source
NextFlag ==
    \/ \E a \in CallAddrs : flagUnsafeInteractions(a)
    \/ SettleLive
    \/ Tick

SpecFlag == Init /\ [][NextFlag]_vars

\* the wallet endpoints over the placeholder signal source, one quote request
\* at a time
NextWallet ==
    \/ \E pair \in QuotePairs : pending = {} /\ getQuote(pair[1], pair[2])
    \/ \E quote \in SwapQuotes : \E w \in Wallets : executeSwap(quote, w)
    \/ Settle
    \/ Tick

SpecWallet == Init /\ [][NextWallet]_vars

\* what a signal source can resolve with at its best and around it: no and
\* a critical rug-pull risk, with and without a honeypot, all else perfect;
\* and the placeholder's value
analyzeContractAny(contractAddress) ==
    [rugPullRisk        : {0, 80},
     liquidityScore     : {MaxIndicator},
     holderDistribution : {MaxIndicator},
     contractVerified   : {TRUE},
     honeypotDetected   : BOOLEAN,
     hasRenounced       : {TRUE}]
    \cup {StubIndicators(contractAddress)}

SettleAny ==
    \/ \E op \in pending : \E i \in DOMAIN op.items :
          \E ind \in analyzeContractAny(op.addrs[i]) :
             checkContractFulfilled(op, i, ind)
    \/ \E op \in pending : \E i \in DOMAIN op.items :
          checkContractRejected(op, i)

\* the callers of checkContract that act on the level, one request at a
\* time, over any signal source
NextLevel ==
    \/ pending = {} /\ flagUnsafeInteractions("a1")
    \/ pending = {} /\ getTrustRankings(<<"a1", "a2">>)
    \/ pending = {} /\ getQuote("a1", "a2")
    \/ SettleAny
    \/ Tick

SpecLevel == Init /\ [][NextLevel]_vars

(***************************************************************************)
(* The trust-level utilities called on their own: the call (the function   *)
(* and its arguments) is drawn at the start, and the function is applied   *)
(* to it up to MaxCalls times while the clock moves.                       *)
(***************************************************************************)
\* the values on both sides of every threshold of one field
Edges(field) ==
    {TRUST_LEVEL_THRESHOLDS[t][field] + d : t \in {"green", "yellow"},
                                            d \in {-1, 0}}

\* SafetyIndicators for calculateSafetyScore: every rugPullRisk, the scores
\* at and next to the bonus thresholds, in and out of 0..MaxIndicator
ScoreIndicators ==
    [rugPullRisk        : (0 - MaxExcess)..(MaxIndicator + MaxExcess),
     liquidityScore     : {0, 70, 71, MaxIndicator + MaxExcess},
     holderDistribution : {0 - MaxExcess, 60, 61, MaxIndicator},
     contractVerified   : BOOLEAN,
     honeypotDetected   : BOOLEAN,
     hasRenounced       : BOOLEAN]

\* SafetyIndicators for calculateTrustLevel, which reads three of the fields
LevelIndicators ==
    [rugPullRisk        : {TRUST_LEVEL_THRESHOLDS[t].maxRugPullRisk + d :
                              t \in {"green", "yellow"}, d \in {0, 1}},
     liquidityScore     : {75},
     holderDistribution : {70},
     contractVerified   : BOOLEAN,
     honeypotDetected   : BOOLEAN,
     hasRenounced       : {FALSE}]

\* Omit<ContractMetadata, 'trustLevel'>, the fields calculateTrustLevel reads
LevelMetadata ==
    [safetyScore       : Edges("minSafetyScore"),
     contractAge       : Edges("minContractAge"),
     transactionVolume : Edges("minTransactionVolume")]

\* SafetyIndicators for generateMiterSignals: the values on both sides of the
\* numbers it compares with
SignalIndicators ==
    [rugPullRisk        : {40, 41, 70, 71},
     liquidityScore     : {29, 30},
     holderDistribution : {29, 30},
     contractVerified   : BOOLEAN,
     honeypotDetected   : BOOLEAN,
     hasRenounced       : BOOLEAN]

TrustLevels == {"red", "yellow", "green"}

\* SafetyIndicators for enrichContractMetadata, as a production
\* fetchSafetyIndicators can resolve with: the rug-pull risks at and next to
\* the thresholds, the scores on both sides of the bonus thresholds
EnrichIndicators ==
    [rugPullRisk        : {0, 20, 21, 49, 50, 51},
     liquidityScore     : {70, 71},
     holderDistribution : {60, 61},
     contractVerified   : BOOLEAN,
     honeypotDetected   : BOOLEAN,
     hasRenounced       : BOOLEAN]

UtilityCalls ==
    [fn : {"calculateSafetyScore"}, indicators : ScoreIndicators]
    \cup [fn : {"calculateTrustLevel"}, metadata : LevelMetadata,
          indicators : LevelIndicators]
    \cup [fn : {"generateMiterSignals"}, indicators : SignalIndicators,
          trustLevel : TrustLevels]
    \cup [fn : {"enrichContractMetadata"}, indicators : EnrichIndicators,
          contractAge : Edges("minContractAge"),
          volume : Edges("minTransactionVolume")]

\* PlatformAggregator.enrichContractMetadata after its await: the score is
\* taken from the indicators that are classified; contractAge is the age in
\* days that calculateContractAge gives
enrichContractMetadata(indicators, contractAge, volume) ==
    LET safetyScore == calculateSafetyScore(indicators)
        metadata == [contractAge       |-> contractAge,
                     transactionVolume |-> volume,
                     safetyScore       |-> safetyScore]
        trustLevel == calculateTrustLevel(metadata, indicators)
    IN  [contractAge       |-> contractAge,
         transactionVolume |-> volume,
         safetyScore       |-> safetyScore,
         trustLevel        |-> trustLevel]

callEnrich ==
    /\ args # NoEntry
    /\ args.fn = "enrichContractMetadata"
    /\ Len(rets) < MaxCalls
    /\ rets' = Append(rets, enrichContractMetadata(args.indicators,
                                                   args.contractAge,
                                                   args.volume))
    /\ UNCHANGED <<checkCache, monitoredContracts, now, pending, last,
                   providerCalls, nOps, quiet, transactions, args,
                   analysisCache>>

callSafetyScore ==
    /\ args # NoEntry
    /\ args.fn = "calculateSafetyScore"
    /\ Len(rets) < MaxCalls
    /\ rets' = Append(rets, calculateSafetyScore(args.indicators))
    /\ UNCHANGED <<checkCache, monitoredContracts, now, pending, last,
                   providerCalls, nOps, quiet, transactions, args,
                   analysisCache>>

callTrustLevel ==
    /\ args # NoEntry
    /\ args.fn = "calculateTrustLevel"
    /\ Len(rets) < MaxCalls
    /\ rets' = Append(rets, calculateTrustLevel(args.metadata, args.indicators))
    /\ UNCHANGED <<checkCache, monitoredContracts, now, pending, last,
                   providerCalls, nOps, quiet, transactions, args,
                   analysisCache>>

callMiterSignals ==
    /\ args # NoEntry
    /\ args.fn = "generateMiterSignals"
    /\ Len(rets) < MaxCalls
    /\ rets' = Append(rets, generateMiterSignals(args.indicators,
                                                 args.trustLevel))
    /\ UNCHANGED <<checkCache, monitoredContracts, now, pending, last,
                   providerCalls, nOps, quiet, transactions, args,
                   analysisCache>>

InitUtils ==
    /\ checkCache = [a \in Keys |-> NoEntry]
    /\ monitoredContracts = <<>>
    /\ now = 0
    /\ pending = {}
    /\ last = Event("init", NoOp, 0, NoEvent)
    /\ providerCalls = [a \in Keys |-> 0]
    /\ nOps = 0
    /\ quiet = [a \in Keys |-> FALSE]
    /\ transactions = <<>>
    /\ args \in UtilityCalls
    /\ rets = <<>>
    /\ analysisCache = [a \in Keys |-> NoEntry]

NextUtils ==
    \/ callSafetyScore
    \/ callTrustLevel
    \/ callMiterSignals
    \/ callEnrich
    \/ Tick

SpecUtils == InitUtils /\ [][NextUtils]_vars


(***************************************************************************)
(* Properties.                                                             *)
(***************************************************************************)
\* the step is the call numbered nOps + 1, of this kind, for address a
IsCall(kind, a) ==
    nOps' = nOps + 1 /\ last'.op.kind = kind /\ last'.op.addrs = <<a>>

\* the step is the continuation of a suspended checkContract
IsSettle(ev) == last'.ev = ev /\ pending' # pending

\* the event is the one at which its call returned to the caller
Returned(l) == l.ev \in {"call", "resolve", "reject"} /\ Settled(l.op)

\* the call before this one returned a result for a, and it is younger than
\* five minutes: then this checkContract(a) returns the same result at once
C1_Second(a) ==
    ( /\ Returned(last)
      /\ last.op.kind = "evaluate"
      /\ last.op.addrs = <<a>>
      /\ checkContractOutcome(last.op).status = "fulfilled"
      /\ IsCall("evaluate", a)
      /\ now - checkContractOutcome(last.op).value.timestamp < 5 * 60 * 1000 )
    => /\ Returned(last')
       /\ checkContractOutcome(last'.op) = checkContractOutcome(last.op)
       /\ providerCalls' = providerCalls

\* a checkContract(a) that is not served from the cache calls the provider
\* once, for a
C1_OneCall(a) ==
    (IsCall("evaluate", a) /\ ~Settled(last'.op))
    => providerCalls' = [providerCalls EXCEPT ![a] = @ + 1]

\* no continuation calls the provider again
C1_NoRetry ==
    (IsSettle("resolve") \/ IsSettle("reject")) => providerCalls' = providerCalls

\* C1: two checkContract(a) calls one after the other, the second while the
\* first result is younger than the TTL, return the same result (timestamp,
\* riskLevel, isUnsafe, indicators, miterSignals), and the provider is called
\* once in all: once by the first call, not by the second, never by a
\* continuation.
C1_TwiceWithinTtl ==
    [][(\A a \in Addrs : C1_Second(a) /\ C1_OneCall(a)) /\ C1_NoRetry]_vars

C1_Witness ==
    /\ last.ev = "call"
    /\ last.op.kind = "evaluate"
    /\ last.op.items[1].st = "hit"
    /\ Returned(last.pre)
    /\ last.pre.op.kind = "evaluate"
    /\ last.pre.op.addrs = last.op.addrs
    /\ last.pre.op.items[1].st = "ok"
    /\ last.op.items[1].val = last.pre.op.items[1].val
    /\ last.at > last.op.items[1].val.timestamp
    /\ providerCalls[last.op.addrs[1]] = 1

\* a checkContract(a) that finds an entry is served from the cache, with no
\* provider call, exactly when the entry is younger than five minutes; at
\* five minutes exactly it calls the provider
C2_Lookup(a) ==
    (IsCall("evaluate", a) /\ checkCache[a] # NoEntry)
    => LET age == now - checkCache[a].timestamp
           served == /\ last'.op.items[1] = [st |-> "hit", val |-> checkCache[a]]
                     /\ providerCalls' = providerCalls
                     /\ checkCache' = checkCache
       IN  /\ served <=> age < 5 * 60 * 1000
           /\ age = 5 * 60 * 1000
                 => /\ last'.op.items[1].st = "await"
                    /\ providerCalls'[a] = providerCalls[a] + 1

\* the recomputed result replaces the entry and carries the time of its making
C2_Replace ==
    (IsSettle("resolve") /\ last'.op.kind = "evaluate")
    => /\ checkCache'[last'.op.addrs[1]] = last'.op.items[1].val
       /\ last'.op.items[1].val.timestamp = now

\* C2: freshness is strict: checkContract returns the cached entry without
\* recomputation iff now - timestamp < 5 minutes; at exactly 5 minutes the
\* entry is stale, the provider is called and the new result replaces it.
C2_StrictFreshness ==
    [][(\A a \in Addrs : C2_Lookup(a)) /\ C2_Replace]_vars

C2_Witness ==
    /\ last.ev = "call"
    /\ last.op.kind = "evaluate"
    /\ last.op.items[1].st = "await"
    /\ now = last.at
    /\ checkCache[last.op.addrs[1]] # NoEntry
    /\ last.at - checkCache[last.op.addrs[1]].timestamp = 5 * 60 * 1000

\* stopMonitoring(a) takes a out of the monitored set and out of the cache
C3_Stop(a) ==
    IsCall("stop", a)
    => a \notin Range(monitoredContracts') /\ checkCache'[a] = NoEntry

\* the checkContract(a) that comes right after stopMonitoring(a) is not served
\* from the cache: it calls the provider
C3_Then(a) ==
    (last.ev = "stop" /\ last.op.addrs = <<a>> /\ IsCall("evaluate", a))
    => /\ ~Settled(last'.op)
       /\ providerCalls'[a] = providerCalls[a] + 1

\* what a suspended checkContract returns is built by its continuation
C3_Built ==
    (IsSettle("resolve") /\ last'.op.kind = "evaluate")
    => \E ind \in analyzeContract(last'.op.addrs[1]) :
          checkContractOutcome(last'.op).value =
             buildCheckResult(last'.op.addrs[1], ind)

\* C3: stopMonitoring(a) removes a from the monitored set and evicts a's cache
\* entry, so the checkContract(a) right after it is never served the entry
\* cached before the stop: it calls the provider and returns a newly built
\* result.
C3_StopInvalidates ==
    [][(\A a \in Addrs : C3_Stop(a) /\ C3_Then(a)) /\ C3_Built]_vars

C3_Witness ==
    /\ last.ev = "call"
    /\ last.op.kind = "evaluate"
    /\ ~Settled(last.op)
    /\ last.pre.ev = "stop"
    /\ last.pre.op.addrs = last.op.addrs
    /\ last.pre.op.items[1].val # NoEntry
    /\ last.at - last.pre.op.items[1].val.timestamp < 5 * 60 * 1000

\* C4: after stopMonitoring(a) the cache holds no entry for a until a call
\* that covers a is made; a checkContract(a) that was suspended when the stop
\* ran does not put one back.
C4_NoEntryAfterStop ==
    \A a \in Addrs :
       quiet[a] => a \notin Range(monitoredContracts) /\ checkCache[a] = NoEntry

\* the continuation of a checkContract whose provider call failed leaves the
\* cache as it is and makes the call fail
C5_Reject ==
    IsSettle("reject")
    => /\ checkCache' = checkCache
       /\ last'.op.items[last'.idx] = [st |-> "err", val |-> NoEntry]
       /\ last'.op.kind = "evaluate"
             => checkContractOutcome(last'.op) =
                   [status |-> "rejected", value |-> ProviderError]

\* a checkContract that goes to the provider leaves the cache as it is
C5_Miss(a) == IsCall("evaluate", a) => checkCache' = checkCache

\* C5: when the provider fails during checkContract(a) the error reaches the
\* caller and nothing is written: the cache is as it was, a stale entry of a
\* included.
C5_FailureNotCached ==
    [][(\A a \in Addrs : C5_Miss(a)) /\ C5_Reject]_vars

C5_Witness ==
    /\ last.ev = "reject"
    /\ last.op.kind = "evaluate"
    /\ checkContractOutcome(last.op).status = "rejected"
    /\ checkCache[last.op.addrs[1]] # NoEntry
    /\ last.at - checkCache[last.op.addrs[1]].timestamp >= 5 * 60 * 1000

\* C6: getTrustRankings returns a map whose keys are the given addresses with
\* a fulfilled check, each with the riskLevel of a fulfilled check of that
\* address; a failed address is absent (three addresses with one failure give
\* two entries), and the call does not raise.
C6_RankingsOmitFailures ==
    (Returned(last) /\ last.op.kind = "rank")
    => LET op == last.op
           out == getTrustRankingsOutcome(op)
           ok == {i \in DOMAIN op.items : Fulfilled(op.items[i])}
       IN  /\ out.status = "fulfilled"
           /\ DOMAIN out.value = {op.addrs[i] : i \in ok}
           /\ \A a \in DOMAIN out.value :
                 \E i \in ok : /\ op.addrs[i] = a
                               /\ out.value[a] = op.items[i].val.riskLevel
           /\ (Cardinality(Range(op.addrs)) = 3 /\ NumFailed(op) = 1)
                 => Cardinality(DOMAIN out.value) = 2

C6_Witness ==
    /\ Returned(last)
    /\ last.op.kind = "rank"
    /\ last.op.addrs = <<"a1", "a2", "a3">>
    /\ NumFailed(last.op) = 1
    /\ Cardinality(DOMAIN getTrustRankingsOutcome(last.op).value) = 2

\* a returned syncLiveMetadata is fulfilled
C7_Fulfilled ==
    (Returned(last) /\ last.op.kind = "sync")
    => syncLiveMetadataOutcome(last.op).status = "fulfilled"

\* a check of the batch that succeeds caches its result, whatever became of
\* the other checks of the batch
C7_Cached ==
    (IsSettle("resolve") /\ last'.op.kind = "sync")
    => /\ last'.op.items[last'.idx].st = "ok"
       /\ checkCache'[last'.op.addrs[last'.idx]] = last'.op.items[last'.idx].val

\* a failed check of the batch leaves the other checks of the batch as they are
C7_Isolated ==
    (IsSettle("reject") /\ last'.op.kind = "sync")
    => \E op \in pending :
          /\ op.id = last'.op.id
          /\ \A j \in DOMAIN op.items :
                j # last'.idx => last'.op.items[j] = op.items[j]

\* C7: syncLiveMetadata never raises and never aborts the batch: when the
\* provider fails for some monitored addresses the other checks go on, their
\* results are cached, and the sync completes normally.
C7_SyncNeverRaises ==
    [][C7_Fulfilled' /\ C7_Cached /\ C7_Isolated]_vars

C7_Witness ==
    /\ Returned(last)
    /\ last.op.kind = "sync"
    /\ NumFailed(last.op) >= 1
    /\ last.ev = "resolve"
    /\ checkCache[last.op.addrs[last.idx]] = last.op.items[last.idx].val

\* what the caller of the sync gets: the service's outcome and the endpoint's
\* response
SyncOutcomes(op) == <<syncLiveMetadataOutcome(op), endpointSyncLiveMetadata(op)>>

\* the same batch with every failed check succeeded
WithoutFailures(op) ==
    [op EXCEPT !.items = [i \in DOMAIN op.items |->
                             IF op.items[i].st = "err"
                             THEN [st |-> "ok", val |-> NoEntry]
                             ELSE op.items[i]]]

\* C8: syncLiveMetadata reports the failed addresses: the outcome of a sync
\* in which a check failed differs from the outcome of the same sync without
\* a failure.
C8_SyncReportsFailures ==
    (Returned(last) /\ last.op.kind = "sync" /\ NumFailed(last.op) >= 1)
    => SyncOutcomes(last.op) # SyncOutcomes(WithoutFailures(last.op))

\* C9: syncLiveMetadata re-evaluates every monitored address: each of them is
\* pulled from the provider, also when its entry is within its TTL.
C9_SyncPullsAll ==
    (last.ev = "call" /\ last.op.kind = "sync")
    => \A i \in DOMAIN last.op.items : last.op.items[i].st = "await"

\* startMonitoring of a monitored address changes nothing and returns
C10_Again(a) ==
    (IsCall("start", a) /\ a \in Range(monitoredContracts))
    => /\ monitoredContracts' = monitoredContracts
       /\ checkCache' = checkCache
       /\ providerCalls' = providerCalls
       /\ pending' = pending
       /\ Returned(last')
       /\ startMonitoringOutcome(last'.op).status = "fulfilled"

\* no address is twice in the monitored set
C10_NoDuplicate ==
    \A i, j \in DOMAIN monitoredContracts :
       i # j => monitoredContracts[i] # monitoredContracts[j]

\* C10: startMonitoring is idempotent: on a monitored address it leaves the
\* monitored set and the cache unchanged and does not call the provider, also
\* while the first start's initial check is suspended; the monitored set never
\* holds an address twice.
C10_StartIdempotent ==
    [][(\A a \in Addrs : C10_Again(a)) /\ C10_NoDuplicate']_vars

C10_Witness ==
    /\ last.ev = "call"
    /\ last.op.kind = "start"
    /\ last.op.items = <<>>
    /\ \E op \in pending : op.kind = "start" /\ op.addrs = last.op.addrs

\* startMonitoring of an address that is not monitored adds it to the set and
\* makes one checkContract call for it, which goes to the provider once
\* unless the cache serves it
C11_Start(a) ==
    (IsCall("start", a) /\ a \notin Range(monitoredContracts))
    => /\ Range(monitoredContracts') = Range(monitoredContracts) \cup {a}
       /\ Len(last'.op.items) = 1
       /\ last'.op.items[1] = checkContractEnter(a)
       /\ providerCalls' =
             [providerCalls EXCEPT
                 ![a] = @ + (IF last'.op.items[1].st = "await" THEN 1 ELSE 0)]

\* only stopMonitoring(a) takes a out of the monitored set
C11_Kept(a) ==
    (a \in Range(monitoredContracts) /\ ~IsCall("stop", a))
    => a \in Range(monitoredContracts')

\* a startMonitoring(a) that returns without error leaves an entry for a
C11_Return(a) ==
    ( /\ last' # last
      /\ Returned(last')
      /\ last'.op.kind = "start"
      /\ last'.op.addrs = <<a>>
      /\ last'.op.items # <<>>
      /\ startMonitoringOutcome(last'.op).status = "fulfilled" )
    => /\ checkCache'[a] # NoEntry
       /\ checkCache'[a] = last'.op.items[1].val

\* C11: startMonitoring(a) of an address that is not monitored adds a to the
\* monitored set and triggers exactly one check of a; a stays monitored until
\* a stopMonitoring(a), and when the call returns without error the cache
\* holds an entry for a.
C11_StartAddsAndChecks ==
    [][\A a \in Addrs : C11_Start(a) /\ C11_Kept(a) /\ C11_Return(a)]_vars

C11_Witness ==
    /\ last.ev = "resolve"
    /\ last.op.kind = "start"
    /\ Returned(last)
    /\ startMonitoringOutcome(last.op).status = "fulfilled"
    /\ last.op.addrs[1] \in Range(monitoredContracts)
    /\ checkCache[last.op.addrs[1]] = last.op.items[1].val
    /\ providerCalls[last.op.addrs[1]] = 1

\* the utility called is calculateTrustLevel and it has returned
LevelReturned == args # NoEntry /\ args.fn = "calculateTrustLevel" /\ rets # <<>>

\* the utility called is calculateSafetyScore and it has returned
ScoreReturned == args # NoEntry /\ args.fn = "calculateSafetyScore" /\ rets # <<>>

\* the metadata meets every green threshold
MeetsGreen(metadata, indicators) ==
    /\ metadata.safetyScore >= 80
    /\ indicators.rugPullRisk <= 20
    /\ metadata.contractAge >= 30
    /\ metadata.transactionVolume >= 100000

\* the metadata meets every yellow threshold
MeetsYellow(metadata, indicators) ==
    /\ metadata.safetyScore >= 50
    /\ indicators.rugPullRisk <= 50
    /\ metadata.contractAge >= 7
    /\ metadata.transactionVolume >= 10000

\* C12: for indicators with honeypotDetected or without contractVerified,
\* calculateTrustLevel returns red whatever safetyScore, rugPullRisk,
\* contractAge and transactionVolume are, also when they meet every green
\* threshold.
C12_Veto ==
    ( /\ LevelReturned
      /\ args.indicators.honeypotDetected \/ ~args.indicators.contractVerified )
    => \A i \in DOMAIN rets : rets[i] = "red"

C12_Witness ==
    /\ LevelReturned
    /\ args.indicators.honeypotDetected \/ ~args.indicators.contractVerified
    /\ MeetsGreen(args.metadata, args.indicators)
    /\ rets[1] = "red"

\* the first-match decision list
DecisionList(metadata, indicators) ==
    CASE indicators.honeypotDetected \/ ~indicators.contractVerified -> "red"
      [] indicators.rugPullRisk > 50 -> "red"
      [] MeetsGreen(metadata, indicators) -> "green"
      [] MeetsYellow(metadata, indicators) -> "yellow"
      [] OTHER -> "red"

\* C13: calculateTrustLevel returns, for every input, what the first-match
\* decision list gives (red flags, rug risk over 50, green thresholds, yellow
\* thresholds, else red), and that is one of the three levels.
C13_DecisionList ==
    LevelReturned
    => \A i \in DOMAIN rets :
          /\ rets[i] \in {"red", "yellow", "green"}
          /\ rets[i] = DecisionList(args.metadata, args.indicators)

C13_Witness ==
    /\ LevelReturned
    /\ ~args.indicators.honeypotDetected
    /\ args.indicators.contractVerified
    /\ args.indicators.rugPullRisk <= 50
    /\ ~MeetsGreen(args.metadata, args.indicators)
    /\ MeetsYellow(args.metadata, args.indicators)
    /\ rets[1] = "yellow"

\* the four numbers calculateTrustLevel compares with the thresholds
Numbers(call) ==
    <<call.metadata.safetyScore, call.indicators.rugPullRisk,
      call.metadata.contractAge, call.metadata.transactionVolume>>

\* C14: the thresholds are inclusive: a verified contract without honeypot
\* at exactly 80, 20, 30, 100000 is green, with one of the minima lowered by
\* one or the rug risk at 21 it is not green, and at exactly 50, 50, 7, 10000
\* it is yellow.
C14_Inclusive ==
    ( /\ LevelReturned
      /\ args.indicators.contractVerified
      /\ ~args.indicators.honeypotDetected )
    => \A i \in DOMAIN rets :
          /\ Numbers(args) = <<80, 20, 30, 100000>> => rets[i] = "green"
          /\ Numbers(args) \in {<<79, 20, 30, 100000>>, <<80, 21, 30, 100000>>,
                                <<80, 20, 29, 100000>>, <<80, 20, 30, 99999>>}
                => rets[i] # "green"
          /\ Numbers(args) = <<50, 50, 7, 10000>> => rets[i] = "yellow"

C14_Witness ==
    /\ LevelReturned
    /\ args.indicators.contractVerified
    /\ ~args.indicators.honeypotDetected
    /\ Numbers(args) = <<80, 20, 30, 100000>>
    /\ rets[1] = "green"

\* C15: calculateSafetyScore returns a whole number from 0 to 100 for every
\* input, numbers outside 0..100 included, and the same number each time it
\* is called on the same input, whatever the clock shows; the calls leave the
\* cache, the monitored set and the wallet's store as they were.
C15_ScoreInRange ==
    ScoreReturned
    => /\ \A i \in DOMAIN rets : rets[i] \in 0..100 /\ rets[i] = rets[1]
       /\ checkCache = [a \in Keys |-> NoEntry]
       /\ monitoredContracts = <<>>
       /\ transactions = <<>>

C15_Witness ==
    /\ ScoreReturned
    /\ args.indicators.rugPullRisk < 0
    /\ args.indicators.liquidityScore > 100
    /\ now > 0
    /\ rets = <<100, 100>>

\* the sum of the bonuses and the penalty, before the rug-risk term
Points(indicators) ==
    50 + (IF indicators.contractVerified THEN 15 ELSE 0)
       + (IF indicators.hasRenounced THEN 10 ELSE 0)
       + (IF indicators.liquidityScore > 70 THEN 10 ELSE 0)
       + (IF indicators.holderDistribution > 60 THEN 10 ELSE 0)
       - (IF indicators.honeypotDetected THEN 40 ELSE 0)

\* n is the whole number nearest to x / 10, the half going up
Nearest(n, x) == 10 * n - 5 <= x /\ x < 10 * n + 5

\* C16: for indicators in 0..100 calculateSafetyScore is the clamp to 0..100
\* of the whole number nearest (halves up) to 50 + 15 [verified] + 10
\* [renounced] + 10 [liquidityScore > 70] + 10 [holderDistribution > 60] - 40
\* [honeypot] - 0.3 * rugPullRisk.
C16_ScoreFormula ==
    ( /\ ScoreReturned
      /\ args.indicators.rugPullRisk \in 0..100
      /\ args.indicators.liquidityScore \in 0..100
      /\ args.indicators.holderDistribution \in 0..100 )
    => \A i \in DOMAIN rets :
          \E n \in -40..110 :
             /\ Nearest(n, 10 * Points(args.indicators)
                              - 3 * args.indicators.rugPullRisk)
             /\ rets[i] = Max(0, Min(100, n))

C16_Witness ==
    /\ ScoreReturned
    /\ args.indicators.rugPullRisk = 15
    /\ args.indicators.liquidityScore = 70
    /\ args.indicators.holderDistribution = 60
    /\ args.indicators.contractVerified
    /\ ~args.indicators.hasRenounced
    /\ ~args.indicators.honeypotDetected
    /\ rets[1] = 61

\* flagUnsafeInteractions has returned a response
FlagReturned ==
    Returned(last) /\ last.op.kind = "flag" /\ Fulfilled(last.op.items[1])

\* a RugPullCheckResult of the given level, as checkContract puts it together
ResultOf(riskLevel, indicators) ==
    [contractAddress |-> "a1",
     isUnsafe        |-> riskLevel = "red",
     riskLevel       |-> riskLevel,
     indicators      |-> indicators,
     miterSignals    |-> generateMiterSignals(indicators, riskLevel),
     timestamp       |-> now]

\* the response blocks exactly for a red level, a honeypot or a rug risk over
\* 70, and a response that does not block says that the checks passed
BlocksIff(result, response) ==
    /\ response.shouldBlock
          <=> \/ result.riskLevel = "red"
              \/ result.indicators.honeypotDetected
              \/ result.indicators.rugPullRisk > 70
    /\ ~response.shouldBlock
          => response.reason = <<"Contract passed safety checks">>

\* C17: flagUnsafeInteractions returns shouldBlock = TRUE iff the result is
\* red, or has honeypotDetected, or has rugPullRisk > 70, and otherwise
\* shouldBlock = FALSE with the reason 'Contract passed safety checks': for
\* the result of every call, and for a result of any level.
C17_BlockIff ==
    /\ FlagReturned
          => BlocksIff(last.op.items[1].val,
                       flagUnsafeInteractionsOutcome(last.op).value)
    /\ \A riskLevel \in {"red", "yellow", "green"} :
          \A indicators \in analyzeContractLive("a1") :
             BlocksIff(ResultOf(riskLevel, indicators),
                       flagDecision(ResultOf(riskLevel, indicators)))

C17_Witness ==
    /\ FlagReturned
    /\ last.ev = "resolve"
    /\ last.op.items[1].val.riskLevel = "red"
    /\ ~last.op.items[1].val.indicators.honeypotDetected
    /\ last.op.items[1].val.indicators.rugPullRisk <= 70
    /\ flagUnsafeInteractionsOutcome(last.op).value.shouldBlock

\* C18: the reason of flagUnsafeInteractions names the most specific cause:
\* the honeypot reason for a result with honeypotDetected, the critical rug
\* pull reason for a result with rugPullRisk > 70 and no honeypot.
C18_SpecificReason ==
    FlagReturned
    => LET result == last.op.items[1].val
           response == flagUnsafeInteractionsOutcome(last.op).value
       IN  /\ result.indicators.honeypotDetected
                => response.reason =
                      <<"Honeypot detected - transaction may not be reversible">>
           /\ (~result.indicators.honeypotDetected
                  /\ result.indicators.rugPullRisk > 70)
                => response.reason = <<"Critical rug pull risk detected">>

\* flagUnsafeInteractions(a) called at the instant t is served from the cache
\* and blocks
BlockedAt(a, t) ==
    /\ checkCache[a] # NoEntry
    /\ t - checkCache[a].timestamp < SAFETY_CHECK_INTERVALS.rugPullCheck
    /\ flagDecision(checkCache[a]).shouldBlock

\* C19: executeSwap stores no transaction for a quote with an input or output
\* token that flagUnsafeInteractions blocks.
C19_SwapGated ==
    ( /\ last.ev = "call"
      /\ last.op.kind = "swap"
      /\ executeSwapOutcome(last.op).success )
    => /\ executeSwapOutcome(last.op).data.id \in DOMAIN transactions
       /\ \A i \in DOMAIN last.op.addrs : ~BlockedAt(last.op.addrs[i], last.at)

\* two checkContract(a) calls made together on a miss both go to the provider
C20_BothMiss ==
    ( /\ nOps' = nOps + 1
      /\ last'.op.kind = "quote"
      /\ last'.op.addrs[1] = last'.op.addrs[2]
      /\ checkContractEnter(last'.op.addrs[1]).st = "await" )
    => /\ \A i \in {1, 2} : last'.op.items[i].st = "await"
       /\ providerCalls' =
             [providerCalls EXCEPT ![last'.op.addrs[1]] = @ + 2]

\* a checkContract whose provider call resolves returns the result it built
\* itself and leaves it in the cache, and the result of the other call is as
\* it was
C20_OwnResult ==
    IsSettle("resolve")
    => LET i == last'.idx
           a == last'.op.addrs[i]
       IN  /\ last'.op.items[i].st = "ok"
           /\ \E ind \in analyzeContract(a) :
                 last'.op.items[i].val = buildCheckResult(a, ind)
           /\ checkCache'[a] = last'.op.items[i].val
           /\ \E op \in pending :
                 /\ op.id = last'.op.id
                 /\ \A j \in DOMAIN op.items :
                       j # i => last'.op.items[j] = op.items[j]

\* two results for one address made from the same indicators differ at most
\* in the timestamp
C20_Agree ==
    \A i, j \in DOMAIN last.op.items :
       ( /\ last.op.kind = "quote"
         /\ last.op.addrs[i] = last.op.addrs[j]
         /\ last.op.items[i].st = "ok"
         /\ last.op.items[j].st = "ok"
         /\ last.op.items[i].val.indicators = last.op.items[j].val.indicators )
       => [last.op.items[i].val EXCEPT !.timestamp = 0]
             = [last.op.items[j].val EXCEPT !.timestamp = 0]

\* C20: two checkContract(a) calls that miss the cache together each call the
\* provider and each return the result they built; the cache then holds the
\* result of the call that wrote last, and the two results agree on
\* riskLevel, isUnsafe, indicators and miterSignals when the provider gave
\* both the same indicators.
C20_ConcurrentMisses ==
    [][C20_BothMiss /\ C20_OwnResult /\ C20_Agree']_vars

C20_Witness ==
    /\ last.ev = "resolve"
    /\ last.op.kind = "quote"
    /\ last.op.addrs[1] = last.op.addrs[2]
    /\ last.op.items[1].st = "ok"
    /\ last.op.items[2].st = "ok"
    /\ last.op.items[1].val.timestamp # last.op.items[2].val.timestamp
    /\ checkCache[last.op.addrs[1]] = last.op.items[last.idx].val
    /\ providerCalls[last.op.addrs[1]] = 2

\* the utility called is generateMiterSignals and it has returned
SignalsReturned ==
    args # NoEntry /\ args.fn = "generateMiterSignals" /\ rets # <<>>

\* every signal, in the order in which the signals are reported
SignalOrder ==
    <<"HIGH_RISK", "HONEYPOT_DETECTED", "UNVERIFIED_CONTRACT",
      "CRITICAL_RUG_RISK", "ELEVATED_RUG_RISK", "LOW_LIQUIDITY",
      "CONCENTRATED_HOLDERS", "OWNERSHIP_NOT_RENOUNCED">>

\* the condition under which a signal is reported
Reported(signal, indicators, trustLevel) ==
    CASE signal = "HIGH_RISK" -> trustLevel = "red"
      [] signal = "HONEYPOT_DETECTED" -> indicators.honeypotDetected
      [] signal = "UNVERIFIED_CONTRACT" -> ~indicators.contractVerified
      [] signal = "CRITICAL_RUG_RISK" -> indicators.rugPullRisk > 70
      [] signal = "ELEVATED_RUG_RISK" ->
            indicators.rugPullRisk > 40 /\ ~(indicators.rugPullRisk > 70)
      [] signal = "LOW_LIQUIDITY" -> indicators.liquidityScore < 30
      [] signal = "CONCENTRATED_HOLDERS" -> indicators.holderDistribution < 30
      [] signal = "OWNERSHIP_NOT_RENOUNCED" -> ~indicators.hasRenounced

\* no element occurs twice
Distinct(seq) == \A i, j \in DOMAIN seq : i # j => seq[i] # seq[j]

\* C21: generateMiterSignals returns the signals whose condition holds, each
\* once, in the order HIGH_RISK, HONEYPOT_DETECTED, UNVERIFIED_CONTRACT,
\* CRITICAL_RUG_RISK or else ELEVATED_RUG_RISK, LOW_LIQUIDITY,
\* CONCENTRATED_HOLDERS, OWNERSHIP_NOT_RENOUNCED.
C21_SignalSequence ==
    SignalsReturned
    => \A i \in DOMAIN rets :
          /\ rets[i] = SelectSeq(SignalOrder,
                                 LAMBDA signal :
                                    Reported(signal, args.indicators,
                                             args.trustLevel))
          /\ Distinct(rets[i])
          /\ ~({"CRITICAL_RUG_RISK", "ELEVATED_RUG_RISK"} \subseteq Range(rets[i]))

C21_Witness ==
    /\ SignalsReturned
    /\ args.trustLevel = "red"
    /\ args.indicators.honeypotDetected
    /\ args.indicators.rugPullRisk = 41
    /\ rets[1] = <<"HIGH_RISK", "HONEYPOT_DETECTED", "ELEVATED_RUG_RISK",
                   "LOW_LIQUIDITY">>

\* C22 as stated: generateMiterSignals returns at most 6 distinct signals.
C22_AtMostSix ==
    SignalsReturned
    => \A i \in DOMAIN rets : Distinct(rets[i]) /\ Len(rets[i]) <= 6

\* C22: generateMiterSignals returns a finite sequence of at most 7 distinct
\* signals, for every indicators value and every level.
C22_AtMostSeven ==
    SignalsReturned
    => \A i \in DOMAIN rets :
          /\ rets[i] \in Seq(Range(SignalOrder))
          /\ Distinct(rets[i])
          /\ Len(rets[i]) <= 7

C22_Witness ==
    /\ SignalsReturned
    /\ Distinct(rets[1])
    /\ Len(rets[1]) = 7

\* the indicators the placeholder analysis resolves with
C23_Stub ==
    [rugPullRisk |-> 30, liquidityScore |-> 75, holderDistribution |-> 70,
     contractVerified |-> TRUE, honeypotDetected |-> FALSE,
     hasRenounced |-> FALSE]

\* C23: with the placeholder analysis every result of checkContract, for any
\* address, is made from the placeholder's indicators, whose safety score is
\* 76, and is red and unsafe with the signals HIGH_RISK,
\* OWNERSHIP_NOT_RENOUNCED.
C23_StubResult ==
    \A i \in DOMAIN last.op.items :
       Fulfilled(last.op.items[i])
       => LET result == last.op.items[i].val
          IN  /\ result.contractAddress = last.op.addrs[i]
              /\ result.indicators = C23_Stub
              /\ calculateSafetyScore(result.indicators) = 76
              /\ result.riskLevel = "red"
              /\ result.isUnsafe
              /\ result.miterSignals = <<"HIGH_RISK", "OWNERSHIP_NOT_RENOUNCED">>

C23_Witness ==
    /\ last.ev = "resolve"
    /\ last.op.kind = "evaluate"
    /\ last.op.items[1].val.riskLevel = "red"
    /\ last.op.items[1].val.miterSignals =
          <<"HIGH_RISK", "OWNERSHIP_NOT_RENOUNCED">>
    /\ calculateSafetyScore(last.op.items[1].val.indicators) = 76

\* an entry changes only by a stopMonitoring of its address, which removes
\* it, or by the continuation of a successful check of its address, which
\* puts the new result in its place
C24_Changes(a) ==
    checkCache'[a] # checkCache[a]
    => \/ IsCall("stop", a) /\ checkCache'[a] = NoEntry
       \/ /\ IsSettle("resolve")
          /\ last'.op.addrs[last'.idx] = a
          /\ checkCache'[a] = last'.op.items[last'.idx].val

\* a checkContract(a) that finds a stale entry goes to the provider and
\* leaves the entry where it is
C24_Stale(a) ==
    ( /\ IsCall("evaluate", a)
      /\ checkCache[a] # NoEntry
      /\ ~isCacheValid(checkCache[a].timestamp) )
    => /\ last'.op.items[1].st = "await"
       /\ checkCache' = checkCache

\* C24: expiry is lazy: a cache entry is removed only by stopMonitoring of
\* its address and replaced only by a successful check of its address; the
\* clock moving changes no entry, and a stale entry only makes the next
\* checkContract of its address go to the provider.
C24_LazyExpiry ==
    [][/\ \A a \in Addrs : C24_Changes(a) /\ C24_Stale(a)
       /\ now' # now => checkCache' = checkCache]_vars

C24_Witness ==
    /\ last.ev = "call"
    /\ last.op.kind = "evaluate"
    /\ last.op.items[1].st = "await"
    /\ last.op \in pending
    /\ checkCache[last.op.addrs[1]] # NoEntry
    /\ last.at - checkCache[last.op.addrs[1]].timestamp
          >= SAFETY_CHECK_INTERVALS.rugPullCheck

\* x comes before y in the sequence
Before(seq, x, y) ==
    \E i, j \in DOMAIN seq : i < j /\ seq[i] = x /\ seq[j] = y

\* the two sequences hold their common elements in the same order
SameOrder(s1, s2) ==
    \A x, y \in Range(s1) \cap Range(s2) : Before(s1, x, y) <=> Before(s2, x, y)

\* startMonitoring leaves a monitored address where it is and puts any other
\* address behind the ones that are monitored
C25_Start(a) ==
    IsCall("start", a)
    => IF a \in Range(monitoredContracts)
       THEN getMonitoredContracts' = getMonitoredContracts
       ELSE /\ Len(getMonitoredContracts') = Len(getMonitoredContracts) + 1
            /\ getMonitoredContracts'[Len(getMonitoredContracts')] = a
            /\ SameOrder(getMonitoredContracts, getMonitoredContracts')
            /\ Range(getMonitoredContracts') = Range(getMonitoredContracts) \cup {a}

\* stopMonitoring takes its address out and leaves the others in their order
C25_Stop(a) ==
    IsCall("stop", a)
    => /\ Range(getMonitoredContracts') = Range(getMonitoredContracts) \ {a}
       /\ SameOrder(getMonitoredContracts, getMonitoredContracts')

Consistent(result) ==
    /\ result.isUnsafe <=> result.riskLevel = "red"
    /\ result.riskLevel =
          calculateTrustLevel(
             [contractAge |-> 0, transactionVolume |-> 0,
              safetyScore |-> calculateSafetyScore(result.indicators)],
             result.indicators)
    /\ result.miterSignals =
          generateMiterSignals(result.indicators, result.riskLevel)

\* C26: every result in the cache, and every result a call has returned, is
\* consistent and belongs to the address it is stored or returned for.
C26_ResultsConsistent ==
    /\ \A a \in Addrs :
          checkCache[a] # NoEntry
          => checkCache[a].contractAddress = a /\ Consistent(checkCache[a])
    /\ \A i \in DOMAIN last.op.items :
          Fulfilled(last.op.items[i])
          => /\ last.op.items[i].val.contractAddress = last.op.addrs[i]
             /\ Consistent(last.op.items[i].val)

C26_Witness ==
    /\ last.ev = "resolve"
    /\ last.op.items[1].val.indicators.honeypotDetected
    /\ checkCache[last.op.addrs[1]] = last.op.items[1].val
    /\ Consistent(checkCache[last.op.addrs[1]])
    /\ \E a \in Addrs : /\ a # last.op.addrs[1]
                        /\ checkCache[a] # NoEntry
                        /\ ~checkCache[a].indicators.honeypotDetected

\* a request of the given kind with the empty address is answered at once
\* with success = FALSE and changes neither the cache nor the monitored set
C27_Rejected(kind) ==
    IsCall(kind, "")
    => /\ last'.op.items # <<>>
       /\ last'.op.items[1].st = "refused"
       /\ ~endpointResponse(last'.op).success
       /\ UNCHANGED <<checkCache, monitoredContracts>>

\* the empty address is neither monitored nor cached
C27_EmptyNeverKept ==
    "" \notin Range(monitoredContracts) /\ checkCache[""] = NoEntry

\* C27: the endpoints checkContract, startMonitoring and
\* flagUnsafeInteractions alike reject a request with an empty address with
\* success = FALSE and leave the cache and the monitored set as they were, so
\* that the empty address is never monitored and never cached.
C27_InputValidated ==
    [][/\ \A kind \in {"evaluate", "start", "flag"} : C27_Rejected(kind)
       /\ C27_EmptyNeverKept']_vars

\* the step is a call of assessContractSafety(a)
C28_Assess(a) ==
    nOps' = nOps + 1 /\ last'.op.kind = "assess" /\ last'.op.addrs[1] = a

\* assessContractSafety(a) returns the cached analysis at once, and changes
\* neither cache, exactly if that analysis is younger than ten minutes;
\* the rug-pull entry of a has no part in it
C28_Freshness(a) ==
    C28_Assess(a)
    => LET entry == analysisCache[a]
           served == last'.op.items[1].st = "served"
       IN  /\ served <=> (entry # NoEntry /\ now - entry.updatedAt < 600000)
           /\ served
                 => /\ Settled(last'.op)
                    /\ assessContractSafetyOutcome(last'.op).value = entry
                    /\ UNCHANGED <<checkCache, analysisCache>>

\* no step changes both caches: a step of checkContract or stopMonitoring
\* leaves the analysis cache alone, and the step that caches an analysis
\* leaves the rug-pull cache alone
C28_Separate ==
    /\ checkCache' = checkCache \/ analysisCache' = analysisCache
    /\ (last'.op.kind \in {"stop", "evaluate"} \/ last'.ev \in {"resolve", "reject"})
          => analysisCache' = analysisCache
    /\ last'.ev = "resume" => checkCache' = checkCache
    /\ \A a \in Addrs :
          IsCall("stop", a)
          => checkCache'[a] = NoEntry /\ analysisCache'[a] = analysisCache[a]

\* C28: the rug-pull cache (TTL 5 minutes) and the analysis cache (TTL 10
\* minutes) are separate stores with independent freshness: an analysis is
\* served from its cache iff now - updatedAt < 10 minutes, whatever the age
\* of the rug-pull entry, and writing or invalidating one cache never changes
\* the other; stopMonitoring evicts only the rug-pull entry.
C28_SeparateCaches ==
    [][(\A a \in Addrs : C28_Freshness(a)) /\ C28_Separate]_vars

\* an analysis served after stopMonitoring evicted the rug-pull entry, at an
\* age at which a rug-pull entry would be stale
C28_Witness ==
    /\ last.ev = "call"
    /\ last.op.kind = "assess"
    /\ last.op.items[1].st = "served"
    /\ checkCache[last.op.addrs[1]] = NoEntry
    /\ now - last.op.items[1].val.updatedAt >= SAFETY_CHECK_INTERVALS.rugPullCheck

\* the indicators a signal source could report, on both sides of every
\* threshold of the level and at the best of every field
C29_Outputs ==
    LevelIndicators
    \cup [rugPullRisk        : {0, 20},
          liquidityScore     : {71, MaxIndicator},
          holderDistribution : {61, MaxIndicator},
          contractVerified   : {TRUE},
          honeypotDetected   : {FALSE},
          hasRenounced       : BOOLEAN]

\* the result checkContract builds from the indicators is red and unsafe, and
\* flagUnsafeInteractions blocks for it
C29_Red(result) ==
    /\ result.riskLevel = "red"
    /\ result.isUnsafe
    /\ flagDecision(result).shouldBlock

\* of the call that returned: every result is red, the flag blocks, the
\* rankings map every address that has a result to red, and the quote
\* request is answered without a quote
C29_Returned ==
    Returned(last)
    => /\ \A i \in DOMAIN last.op.items :
             Fulfilled(last.op.items[i]) => C29_Red(last.op.items[i].val)
       /\ (last.op.kind = "flag" /\ Fulfilled(last.op.items[1]))
             => flagUnsafeInteractionsOutcome(last.op).value.shouldBlock
       /\ last.op.kind = "rank"
             => LET rankings == getTrustRankingsOutcome(last.op).value
                IN  /\ \A a \in DOMAIN rankings : rankings[a] = "red"
                    /\ \A i \in DOMAIN last.op.items :
                          Fulfilled(last.op.items[i])
                          => last.op.addrs[i] \in DOMAIN rankings
       /\ last.op.kind = "quote"
             => \A amount \in Amounts : \A slippageBps \in {50, 100} :
                   ~getQuoteOutcome(last.op, amount, slippageBps).success

\* C29: checkContract takes the level with contractAge = 0 and
\* transactionVolume = 0, so every result is red and unsafe whatever the
\* signal source reports; hence flagUnsafeInteractions always blocks,
\* getTrustRankings maps every address with a result to red, and the wallet's
\* getQuote never returns a quote.  The level of a result does not depend on
\* the state, so the results of C29_Outputs are looked at before the first
\* call, at every instant of the clock.
C29_AlwaysRed ==
    /\ nOps = 0
          => \A indicators \in C29_Outputs :
                C29_Red(buildCheckResult("a1", indicators))
    /\ \A a \in Addrs : checkCache[a] # NoEntry => C29_Red(checkCache[a])
    /\ C29_Returned

\* a quote request refused although both tokens have perfect indicators
C29_Witness ==
    /\ Returned(last)
    /\ last.op.kind = "quote"
    /\ NumFailed(last.op) = 0
    /\ \A i \in {1, 2} :
          /\ calculateSafetyScore(last.op.items[i].val.indicators)
                >= TRUST_LEVEL_THRESHOLDS.green.minSafetyScore
          /\ last.op.items[i].val.indicators.rugPullRisk = 0
          /\ ~last.op.items[i].val.indicators.honeypotDetected
    /\ ~getQuoteOutcome(last.op, 1000, 50).success

\* the result has a honeypot or a rug-pull risk over 70
C30_Caught(indicators) ==
    indicators.honeypotDetected \/ indicators.rugPullRisk > 70

\* the response comes from the isUnsafe branch or from the last branch
C30_FirstOrLast(result, response) ==
    \/ /\ result.isUnsafe
       /\ response.reason =
             <<"Contract flagged as ", result.riskLevel, ": ">>
             \o join(result.miterSignals, ", ")
    \/ /\ ~result.isUnsafe
       /\ ~C30_Caught(result.indicators)
       /\ response.reason = <<"Contract passed safety checks">>

\* C30: in flagUnsafeInteractions the tests of honeypotDetected and of
\* rugPullRisk > 70 never change the outcome: a result of checkContract with
\* a honeypot or a risk over 70 is red, whatever its metadata, so shouldBlock
\* is TRUE exactly for a red result and neither of the two later branches is
\* the one that returns.
C30_LaterChecksIdle ==
    /\ \A metadata \in LevelMetadata :
          \A indicators \in analyzeContractLive("a1") :
             C30_Caught(indicators)
             => calculateTrustLevel(metadata, indicators) = "red"
    /\ \A a \in Addrs :
          (checkCache[a] # NoEntry /\ C30_Caught(checkCache[a].indicators))
          => checkCache[a].riskLevel = "red" /\ checkCache[a].isUnsafe
    /\ FlagReturned
          => LET result == last.op.items[1].val
                 response == flagUnsafeInteractionsOutcome(last.op).value
             IN  /\ C30_Caught(result.indicators) => result.riskLevel = "red"
                 /\ response.shouldBlock <=> result.riskLevel = "red"
                 /\ C30_FirstOrLast(result, response)

\* a call returned for a result with a honeypot, and one for a result with a
\* risk over 70 is in the cache
C30_Witness ==
    /\ FlagReturned
    /\ last.op.items[1].val.indicators.honeypotDetected
    /\ flagUnsafeInteractionsOutcome(last.op).value.shouldBlock
    /\ \E a \in Addrs :
          /\ checkCache[a] # NoEntry
          /\ ~checkCache[a].indicators.honeypotDetected
          /\ checkCache[a].indicators.rugPullRisk > 70

\* the initial check of startMonitoring(a) fails: the caller gets the error,
\* nothing is cached and the monitored set is left as it is
C31_Fails(a) ==
    ( /\ IsSettle("reject")
      /\ last'.op.kind = "start"
      /\ last'.op.addrs = <<a>> )
    => /\ Returned(last')
       /\ startMonitoringOutcome(last'.op) =
             [status |-> "rejected", value |-> ProviderError]
       /\ checkCache' = checkCache
       /\ monitoredContracts' = monitoredContracts

\* a startMonitoring(a) after the failed one, a still monitored and without
\* an entry: it returns successfully and evaluates nothing
C31_Later(a) ==
    ( /\ IsCall("start", a)
      /\ a \in Range(monitoredContracts)
      /\ checkCache[a] = NoEntry )
    => /\ last'.op.items = <<>>
       /\ startMonitoringOutcome(last'.op).status = "fulfilled"
       /\ providerCalls' = providerCalls
       /\ checkCache'[a] = NoEntry
       /\ a \in Range(monitoredContracts')

\* C31: when the initial check inside startMonitoring(a) fails with a
\* provider error, the error goes to the caller and nothing is cached, but a
\* stays in the monitored set; a later startMonitoring(a) returns
\* successfully without evaluating, so a is monitored without a cache entry.
C31_FailedStartStaysMonitored ==
    [][\A a \in Addrs : C31_Fails(a) /\ C31_Later(a)]_vars

\* the second startMonitoring(a) has returned right after the first failed,
\* and a is monitored without an entry
C31_Witness ==
    /\ last.ev = "call"
    /\ last.op.kind = "start"
    /\ last.op.items = <<>>
    /\ last.pre.ev = "reject"
    /\ last.pre.op.kind = "start"
    /\ last.pre.op.addrs = last.op.addrs
    /\ last.op.addrs[1] \in Range(monitoredContracts)
    /\ checkCache[last.op.addrs[1]] = NoEntry
    /\ pending = {}

\* a write of the entry of a: the entry is stamped with the instant of the
\* write, which is not before the stamp of the entry it replaces
C32_Write(a) ==
    (checkCache'[a] # checkCache[a] /\ checkCache'[a] # NoEntry)
    => /\ checkCache'[a].timestamp = now
       /\ now' = now
       /\ checkCache[a] # NoEntry
             => checkCache'[a].timestamp >= checkCache[a].timestamp

\* no entry is stamped later than the clock shows
C32_NotAhead ==
    \A a \in Keys : checkCache[a] # NoEntry => checkCache[a].timestamp <= now

\* C32: for each address the timestamp of the cached entry never decreases
\* from one cache write to the next and is never later than the current
\* time, in every interleaving of concurrent checks under a clock that does
\* not go back: the timestamp is taken and the entry stored in one step.
C32_TimestampMonotone ==
    [][(\A a \in Keys : C32_Write(a)) /\ C32_NotAhead']_vars

\* an entry written after the clock moved, by one of three concurrent checks
\* of one address, while another of them is still suspended
C32_Witness ==
    /\ last.ev = "resolve"
    /\ last.op.items[last.idx].val.timestamp > 0
    /\ checkCache[last.op.addrs[last.idx]] = last.op.items[last.idx].val
    /\ \E op \in pending : \E i \in DOMAIN op.items :
          /\ op.addrs[i] = last.op.addrs[last.idx]
          /\ op.items[i].st = "await"
    /\ providerCalls[last.op.addrs[last.idx]] >= 3

\* a step of checkContract, flagUnsafeInteractions, getTrustRankings or
\* syncLiveMetadata, the call or a continuation, leaves the monitored set
C33_Monitored ==
    (last' # last /\ last'.op.kind \in {"evaluate", "flag", "rank", "sync"})
    => monitoredContracts' = monitoredContracts

\* the entry of b changes only when a check of b is fulfilled or b is stopped
C33_Entry(b) ==
    checkCache'[b] # checkCache[b]
    => \/ /\ IsSettle("resolve")
          /\ last'.op.addrs[last'.idx] = b
          /\ checkCache'[b] = last'.op.items[last'.idx].val
       \/ IsCall("stop", b)

\* a check of a that fails changes no entry
C33_Failed ==
    IsSettle("reject") => checkCache' = checkCache

\* syncLiveMetadata makes its checks for the monitored set of the moment it
\* is called, and its continuations keep to them
C33_Snapshot ==
    /\ (nOps' = nOps + 1 /\ last'.op.kind = "sync")
          => /\ last'.op.addrs = monitoredContracts
             /\ DOMAIN last'.op.items = DOMAIN monitoredContracts
    /\ (last' # last /\ last'.op.kind = "sync" /\ last'.ev # "call")
          => \E op \in pending :
                /\ op.id = last'.op.id
                /\ op.addrs = last'.op.addrs
                /\ \A i \in DOMAIN op.items :
                      i # last'.idx => last'.op.items[i] = op.items[i]

\* C33: checkContract, flagUnsafeInteractions, getTrustRankings and
\* syncLiveMetadata never change the monitored set; a check of a, fulfilled
\* or failed, and a stopMonitoring(a) never change the cache entry of another
\* address; syncLiveMetadata works on the monitored set as it was when the
\* sync started.
C33_FrameEffects ==
    [][/\ C33_Monitored
       /\ \A b \in Keys : C33_Entry(b)
       /\ C33_Failed
       /\ C33_Snapshot]_vars

\* a check of a sync is fulfilled for an address that has been stopped since
\* the sync started
C33_Witness ==
    /\ last.ev = "resolve"
    /\ last.op.kind = "sync"
    /\ last.op.addrs[last.idx] \notin Range(monitoredContracts)
    /\ checkCache[last.op.addrs[last.idx]] = last.op.items[last.idx].val

\* stopMonitoring(a) can be called on every address, monitored or not
C34_Total ==
    nOps < MaxOps => \A a \in CallAddrs : ENABLED stopMonitoring(a)

\* stopMonitoring(a) evicts the entry of a and takes a out of the monitored
\* set; the set is unchanged if a was not in it
C34_Stop(a) ==
    IsCall("stop", a)
    => /\ checkCache' = [checkCache EXCEPT ![a] = NoEntry]
       /\ monitoredContracts' =
             SelectSeq(monitoredContracts, LAMBDA x : x # a)
       /\ a \notin Range(monitoredContracts)
             => monitoredContracts' = monitoredContracts
       /\ pending' = pending

\* the stopMonitoring(a) right after a stopMonitoring(a) changes nothing
C34_Again(a) ==
    (last.ev = "stop" /\ last.op.addrs = <<a>> /\ IsCall("stop", a))
    => /\ checkCache' = checkCache
       /\ monitoredContracts' = monitoredContracts
       /\ pending' = pending

\* C34: stopMonitoring(a) is total and idempotent: on an address that is not
\* monitored it leaves the monitored set unchanged and does not fail, but
\* still evicts the cache entry of a; a second stopMonitoring(a) changes
\* nothing.
C34_StopIdempotent ==
    [][C34_Total /\ \A a \in Addrs : C34_Stop(a) /\ C34_Again(a)]_vars

\* the entry that a checkContract(a) made is evicted by stopMonitoring(a);
\* of the three calls made the third monitors another address, so a was
\* never monitored
C34_Witness ==
    /\ last.ev = "stop"
    /\ last.op.items[1].val # NoEntry
    /\ last.pre.ev = "resolve"
    /\ last.pre.op.kind = "evaluate"
    /\ last.pre.op.addrs = last.op.addrs
    /\ nOps = 3
    /\ Len(monitoredContracts) = 1
    /\ monitoredContracts[1] # last.op.addrs[1]
    /\ checkCache[last.op.addrs[1]] = NoEntry

\* the call with this number is suspended
C35_Pending(id) == \E op \in pending : op.id = id

\* the promises of analyzeContract that are not settled
C35_Awaited(p) ==
    UNION {{<<op.id, i>> : i \in {j \in DOMAIN op.items :
                                     op.items[j].st = "await"}} : op \in p}

\* a continuation settles one promise for good and asks the signal source
\* nothing: no retry and no loop
C35_NoRetry ==
    (last' # last /\ last'.ev \in {"resolve", "reject"})
    => /\ \E x \in C35_Awaited(pending) :
             C35_Awaited(pending') = C35_Awaited(pending) \ {x}
       /\ providerCalls' = providerCalls
       /\ nOps' = nOps

\* a call is suspended only as long as one of its promises is not settled,
\* and a batch whose promises are all settled has completed, whatever the
\* number of those that failed
C35_Batch ==
    /\ \A op \in pending : ~Settled(op)
    /\ (last.op.kind \in {"rank", "sync"} /\ Settled(last.op))
          => /\ last.op \notin pending
             /\ last.op.kind = "rank"
                   => getTrustRankingsOutcome(last.op).status = "fulfilled"
             /\ last.op.kind = "sync"
                   => syncLiveMetadataOutcome(last.op).status = "fulfilled"

\* C35: if every call of the signal source is settled at some time, every
\* checkContract, startMonitoring, getTrustRankings and syncLiveMetadata
\* completes at some time, a batch without waiting for any of its checks to
\* succeed; no call retries or loops on a failure.
C35_Completes ==
    /\ \A id \in 1..MaxOps : C35_Pending(id) ~> ~C35_Pending(id)
    /\ []C35_Batch
    /\ [][C35_NoRetry]_vars

\* a ranking has completed with every one of its checks failed
C35_Witness ==
    /\ last.ev = "reject"
    /\ last.op.kind = "rank"
    /\ Settled(last.op)
    /\ NumFailed(last.op) = Len(last.op.items)
    /\ Len(last.op.items) = 2
    /\ last.op \notin pending

\* the utility called is enrichContractMetadata and it has returned
EnrichReturned ==
    args # NoEntry /\ args.fn = "enrichContractMetadata" /\ rets # <<>>

\* the indicators pass the veto and the rug-risk check of calculateTrustLevel
C36_Passes(indicators) ==
    /\ indicators.contractVerified
    /\ ~indicators.honeypotDetected
    /\ indicators.rugPullRisk <= 50

\* the level decided without the minSafetyScore of yellow
C36_Level(enriched, indicators) ==
    IF /\ enriched.safetyScore >= 80
       /\ indicators.rugPullRisk <= 20
       /\ enriched.contractAge >= 30
       /\ enriched.transactionVolume >= 100000
    THEN "green"
    ELSE IF enriched.contractAge >= 7 /\ enriched.transactionVolume >= 10000
    THEN "yellow"
    ELSE "red"

\* C36: when the safety score is derived from the indicators that are
\* classified, every input with contractVerified, without honeypotDetected
\* and with rugPullRisk <= 50 has a score of at least 50, so the
\* minSafetyScore of yellow never rejects: the level is decided by
\* contractAge, transactionVolume and the conditions of green alone.  The
\* same holds for the results of checkContract.
C36_YellowScoreIdle ==
    /\ EnrichReturned
          => \A i \in DOMAIN rets :
                C36_Passes(args.indicators)
                => /\ rets[i].safetyScore >= 50
                   /\ rets[i].trustLevel = C36_Level(rets[i], args.indicators)
    /\ \A indicators \in analyzeContractAny("a1") :
          C36_Passes(indicators)
          => /\ calculateSafetyScore(indicators) >= 50
             /\ buildCheckResult("a1", indicators).riskLevel
                   = C36_Level([safetyScore |-> calculateSafetyScore(indicators),
                                contractAge |-> 0, transactionVolume |-> 0],
                               indicators)

\* the lowest score that passes: no bonus and a rug-pull risk of 50 give
\* exactly 50, and the level is yellow
C36_Witness ==
    /\ EnrichReturned
    /\ C36_Passes(args.indicators)
    /\ args.indicators.rugPullRisk = 50
    /\ rets[1].safetyScore = 50
    /\ rets[1].trustLevel = "yellow"

\* the quote is within the limits of verifyTransactionSafety
C37_Passed(quote) ==
    /\ quote.priceImpactPct <= 5
    /\ quote.slippageBps <= 100
    /\ Len(quote.route) <= 3

\* the step is a call of executeSwap
C37_Swap == nOps' = nOps + 1 /\ last'.op.kind = "swap"

\* the store changes only by an executeSwap with a quote that passed, which
\* adds its transaction
C37_Store ==
    transactions' # transactions
    => /\ C37_Swap
       /\ C37_Passed(last'.op.items[1].quote)
       /\ executeSwapOutcome(last'.op).success
       /\ transactions' =
             MapSet(transactions, executeSwapOutcome(last'.op).data.id,
                    executeSwapOutcome(last'.op).data)

\* an executeSwap with a quote that fails the check returns success = FALSE
\* and leaves the store
C37_Refuse ==
    (C37_Swap /\ ~C37_Passed(last'.op.items[1].quote))
    => /\ ~executeSwapOutcome(last'.op).success
       /\ transactions' = transactions

\* every transaction of the store is pending, under its own id
C37_Pending ==
    \A id \in DOMAIN transactions :
       transactions[id].status = "pending" /\ transactions[id].id = id

\* C37: every transaction in the wallet's store came from a quote that passed
\* verifyTransactionSafety (priceImpactPct <= 5, slippageBps <= 100, route of
\* at most 3 hops) and has the status pending; when a quote fails the check,
\* executeSwap returns success = FALSE and the store is unchanged.
C37_StoreVerified ==
    [][C37_Store /\ C37_Refuse /\ C37_Pending']_vars

\* a quote refused for its route of four hops alone, next to a stored
\* transaction
C37_Witness ==
    /\ last.ev = "call"
    /\ last.op.kind = "swap"
    /\ last.op.items[1].st = "refused"
    /\ last.op.items[1].quote.priceImpactPct = 5
    /\ last.op.items[1].quote.slippageBps = 100
    /\ Len(last.op.items[1].quote.route) = 4
    /\ executeSwapOutcome(last.op).error =
          <<"Transaction not safe: ",
            "Complex routing may increase failure risk">>
    /\ transactions # <<>>

\* the score of the indicators before it is clamped: the points less 0.3
\* times the rug-pull risk, rounded
C38_Rounded(indicators) ==
    CHOOSE n \in -40..110 :
       Nearest(n, 10 * Points(indicators) - 3 * indicators.rugPullRisk)

\* C38: for indicators with a rugPullRisk in 0..100 calculateSafetyScore is
\* never over 95, so the upper clamp at 100 never binds and only the lower
\* clamp at 0 can change the rounded value (a honeypot with rugPullRisk 100
\* and no bonus gives 0, not -20).
C38_AtMost95 ==
    (ScoreReturned /\ args.indicators.rugPullRisk \in 0..100)
    => \A i \in DOMAIN rets :
          /\ rets[i] <= 95
          /\ C38_Rounded(args.indicators) <= 95
          /\ rets[i] = Max(0, C38_Rounded(args.indicators))
          /\ rets[i] # C38_Rounded(args.indicators)
                => C38_Rounded(args.indicators) < 0 /\ rets[i] = 0

\* the honeypot with a rug-pull risk of 100 and no bonus: -20 clamped to 0
C38_Witness ==
    /\ ScoreReturned
    /\ args.indicators.honeypotDetected
    /\ args.indicators.rugPullRisk = 100
    /\ ~args.indicators.contractVerified
    /\ ~args.indicators.hasRenounced
    /\ args.indicators.liquidityScore <= 70
    /\ args.indicators.holderDistribution <= 60
    /\ C38_Rounded(args.indicators) = -20
    /\ rets[1] = 0

====
